---- MODULE Spec2Model ----
(***************************************************************************)
(* State-machine model of the SessionManager of tanukimcp-scrape           *)
(* (session registry: creation, lazy expiry, status, progress, data        *)
(* buffer, cleanup sweep and event emission).                              *)
(*                                                                         *)
(* Time is the millisecond wall clock read by Date.now() / new Date().     *)
(* Every handler of SessionManager is synchronous (cleanup is declared     *)
(* async but contains no await), so each handler is one atomic action      *)
(* that reads the clock value `now`.                                       *)
(***************************************************************************)
EXTENDS Integers, Sequences, FiniteSets, TLC

(* ------------------------------ bounds --------------------------------- *)
MaxOps == 3          \* handler calls in one behaviour
MaxTicks == 2        \* clock advances in one behaviour
MaxIds == 2          \* session ids the callers pass to the handlers
MaxSessions == 2     \* the maxSessions handed to the constructor

(* ------------------------- program constants --------------------------- *)
DefaultSessionTimeout == 1800000     \* constructor default, 30 minutes
RetentionMs == 86400000              \* cleanup: 24 hours
LongSessionTimeout == 2 * RetentionMs  \* a timeout longer than the retention window

Undefined == 0 - 1                   \* an unset optional field / undefined
EmptyObj == [k \in {} |-> 0]         \* {}

Ids == 1..MaxIds
Statuses == {"created", "configuring", "running", "paused",
             "completed", "failed", "expired"}
Data == {"d1", "d2"}
Timeouts == {DefaultSessionTimeout, LongSessionTimeout}
CreateConfigs == {EmptyObj, [userAgent |-> ""]}
NodeEnvs == {"", "production"}
ConfigInputs == {[maxRedirects |-> 2]}
ProgressInputs == {[pagesProcessed |-> 1, pagesSuccessful |-> 1]}

VARIABLES
    now,            \* the wall clock (ms)
    ticks,          \* number of clock advances so far
    ops,            \* number of handler calls so far
    maxSessions,    \* this.maxSessions
    sessionTimeout, \* this.sessionTimeout
    nodeEnv,        \* process.env.NODE_ENV ("" when it is not set)
    sessions,       \* this.sessions: id -> ScrapeSession
    nextId,         \* the next fresh uuid
    born,           \* history: id -> creation time of every session ever created
    emitted,        \* events emitted by the last operation, in order
    last,           \* history: the last operation, its arguments and its outcome
    eventSubscriptions, \* this.eventSubscriptions: id -> EventSubscription
    nextSub,        \* the next fresh subscription uuid
    stopping,       \* the shutdown calls suspended at 'await this.cleanup()'
    calls,          \* history: every callback invocation so far, in order
    processingQueue, \* DataPipeline.processingQueue: id -> ProcessingJob
    exportJobs,     \* DataPipeline.exportJobs: id -> ExportJob
    runs,           \* the processData calls: job id -> arguments, locals, outcome
    exporting,      \* the performExport calls in flight: id -> data, and where it stands
    microtasks,     \* the processData calls suspended at an await, first in first out
    nextUuid,       \* the next fresh uuid of the pipeline
    rawBatches,     \* the callers' arrays of raw records, which processData is handed
    returned,       \* history: the last analysis call of the pipeline and its result
    browserSessions, \* BrowserManager.browserSessions, in insertion order
    launching,      \* the createBrowserSession calls waiting for puppeteer.launch
    closing,        \* the closeBrowserSession calls waiting for browser.close
    nextBrowser     \* the next fresh uuid / call number of the browser manager

\* the subscription registry and the log of its callbacks
evars == <<eventSubscriptions, nextSub, stopping, calls>>

\* the data pipeline and its calls in flight
pvars == <<processingQueue, exportJobs, runs, exporting, microtasks, nextUuid, rawBatches>>

\* the browser manager
bvars == <<browserSessions, launching, closing, nextBrowser>>

vars == <<now, ticks, ops, maxSessions, sessionTimeout, nodeEnv, sessions, nextId, born,
          emitted, last, evars, pvars, returned, bvars>>

(* ------------------------------ helpers -------------------------------- *)
\* { ...a, ...b }
Merge(a, b) ==
    [k \in (DOMAIN a) \cup (DOMAIN b) |-> IF k \in DOMAIN b THEN b[k] ELSE a[k]]

\* this.sessions.set(id, s)
MapSet(ss, id, s) ==
    [k \in (DOMAIN ss) \cup {id} |-> IF k = id THEN s ELSE ss[k]]

\* this.sessions.delete(id)
MapDelete(ss, id) == [k \in (DOMAIN ss) \ {id} |-> ss[k]]

\* a quotient n/d kept exact as the pair <<n, d>>
Ratio(n, d) == <<n, d>>

createEmptyProgressTracker(t) ==
    [totalPages |-> 0, pagesProcessed |-> 0, pagesSuccessful |-> 0,
     pagesFailed |-> 0, dataPointsExtracted |-> 0, errorsEncountered |-> 0,
     lastUpdate |-> t, avgProcessingTimeMs |-> 0,
     performance |-> [startTime |-> t, pagesProcessed |-> 0,
                      dataPointsExtracted |-> 0, errorsEncountered |-> 0,
                      averagePageLoadTime |-> 0, successRate |-> Ratio(0, 1),
                      throughputPerMinute |-> Ratio(0, 1)],
     quality |-> [completeness |-> 0, accuracy |-> 0, consistency |-> 0,
                  timeliness |-> 0, issues |-> <<>>, duplicates |-> 0,
                  errors |-> 0, score |-> 0]]

createEmptyDataStore(t) ==
    [rawData |-> <<>>, cleanedData |-> <<>>, aggregatedData |-> <<>>,
     metadata |-> [totalRecords |-> 0, fields |-> <<>>, sources |-> <<>>,
                   created |-> t, lastModified |-> t, version |-> "1.0.0"],
     statistics |-> [recordCount |-> 0, fieldCount |-> 0, duplicateRecords |-> 0,
                     completenessRatio |-> 0, qualityScore |-> 0,
                     processingTime |-> 0, dataSize |-> 0]]

DefaultConfiguration ==
    [rateLimit |-> [delayMs |-> 1000, burstLimit |-> 5],
     retryOptions |-> [maxAttempts |-> 3, backoffMs |-> 1000],
     timeout |-> [pageLoadMs |-> 30000, elementWaitMs |-> 10000],
     javascriptEnabled |-> TRUE, allowRedirects |-> TRUE,
     maxRedirects |-> 5, cookiesEnabled |-> TRUE]

\* the session object literal of createSession
NewSession(id, config, t, timeout, env) ==
    [id |-> id,
     configuration |-> Merge(DefaultConfiguration, config),
     progress |-> createEmptyProgressTracker(t),
     data |-> createEmptyDataStore(t),
     metadata |-> [userAgent |-> IF "userAgent" \in DOMAIN config /\ config.userAgent # ""
                                 THEN config.userAgent
                                 ELSE "TanukiMCP-Scrape/1.0.0",
                   startTime |-> t, endTime |-> Undefined,
                   duration |-> Undefined, version |-> "1.0.0",
                   environment |-> IF env # "" THEN env ELSE "development"],
     created_at |-> t,
     updated_at |-> t,
     expires_at |-> t + timeout,
     status |-> "created"]

\* variant: the deadline slides with the last activity
isSessionExpiredSliding(session, t) ==
    t > session.updated_at + (session.expires_at - session.created_at)

\* Date.now() > session.expires_at.getTime()
isSessionExpired(session, t) == t > session.expires_at

\* the severity computed by emitEvent: type.includes('error') || type.includes('failed')
Severity(type) ==
    IF type \in {"error.occurred", "session.failed"} THEN "error" ELSE "info"

\* the event object built by emitEvent
Event(type, sessionId, data, t) ==
    [type |-> type, sessionId |-> sessionId, data |-> data, timestamp |-> t,
     severity |-> Severity(type)]

\* variant: the ceiling is tested with > instead of >=
AtCapacityOffByOne(ss, max) == Cardinality(DOMAIN ss) > max

\* the capacity test of createSession
AtCapacity(ss, max) == Cardinality(DOMAIN ss) >= max

(* ----------------------- handlers as functions -------------------------- *)
(* Each handler maps the session map, its arguments and the clock to the   *)
(* session map it leaves, its outcome and the events it emits.             *)

Outcome(ss, ret, events) == [sessions |-> ss, ret |-> ret, events |-> events]

\* variant: expiring drops the entry
expireSessionDeletes(ss, id, t) ==
    IF id \in DOMAIN ss THEN MapDelete(ss, id) ELSE ss

\* expireSession(sessionId)
expireSession(ss, id, t) ==
    IF id \in DOMAIN ss
    THEN MapSet(ss, id, [ss[id] EXCEPT !.status = "expired", !.updated_at = t])
    ELSE ss

\* deleteSession(sessionId)
deleteSession(ss, id) ==
    IF id \in DOMAIN ss THEN MapDelete(ss, id) ELSE ss

\* getSession(sessionId): found = FALSE stands for the result undefined,
\* found = TRUE for the session object sessions[id]
getSession(ss, id, t) ==
    IF id \in DOMAIN ss /\ isSessionExpired(ss[id], t)
    THEN [sessions |-> expireSession(ss, id, t), found |-> FALSE]
    ELSE [sessions |-> ss, found |-> id \in DOMAIN ss]

\* createSession(userId, config, description, tags)
createSession(ss, id, config, t, max, timeout, env) ==
    IF AtCapacity(ss, max)
    THEN Outcome(ss, "capacity", <<>>)
    ELSE Outcome(MapSet(ss, id, NewSession(id, config, t, timeout, env)), "ok",
                 <<Event("session.created", id, [sessionId |-> id], t)>>)

\* updateSessionConfig(sessionId, config)
updateSessionConfig(ss, id, config, t) ==
    LET g == getSession(ss, id, t) IN
    IF ~g.found
    THEN Outcome(g.sessions, "notFound", <<>>)
    ELSE LET s == g.sessions[id]
             u == [s EXCEPT !.configuration = Merge(s.configuration, config),
                            !.updated_at = t,
                            !.status = "configuring"]
         IN Outcome(MapSet(g.sessions, id, u), "ok", <<>>)

\* updatePerformanceMetrics(sessionId), applied to the progress tracker
updatePerformanceMetrics(progress, t) ==
    LET duration == t - progress.performance.startTime IN
    [progress EXCEPT
        !.performance.throughputPerMinute =
            IF duration > 0 THEN Ratio(progress.pagesProcessed * 60000, duration)
                            ELSE Ratio(0, 1),
        !.performance.successRate =
            IF progress.pagesProcessed > 0
            THEN Ratio(progress.pagesSuccessful, progress.pagesProcessed)
            ELSE Ratio(0, 1)]

\* variant: the session is looked up with sessions.get, skipping the expiry test
updateProgressNoExpiry(ss, id, updates, t) ==
    IF id \notin DOMAIN ss
    THEN Outcome(ss, "notFound", <<>>)
    ELSE LET s == ss[id]
             p == [Merge(s.progress, updates) EXCEPT !.lastUpdate = t]
             u == [s EXCEPT !.progress = p, !.updated_at = t]
         IN Outcome(MapSet(ss, id, u), "ok",
                    <<Event("progress.updated", id, [progress |-> p], t)>>)

\* updateProgress(sessionId, updates)
updateProgress(ss, id, updates, t) ==
    LET g == getSession(ss, id, t) IN
    IF ~g.found
    THEN Outcome(g.sessions, "notFound", <<>>)
    ELSE LET s == g.sessions[id]
             merged == [Merge(s.progress, updates) EXCEPT !.lastUpdate = t]
             p == IF "pagesProcessed" \in DOMAIN updates /\ updates.pagesProcessed # 0
                  THEN updatePerformanceMetrics(merged, t)
                  ELSE merged
             u == [s EXCEPT !.progress = p, !.updated_at = t]
         IN Outcome(MapSet(g.sessions, id, u), "ok",
                    <<Event("progress.updated", id, [progress |-> p], t)>>)

\* the events of the switch at the end of setSessionStatus
StatusEvents(id, status, previousStatus, duration, t) ==
    IF status = "running" /\ previousStatus \in {"created", "configuring"}
    THEN <<Event("session.started", id, [sessionId |-> id], t)>>
    ELSE IF status = "completed"
    THEN <<Event("session.completed", id, [sessionId |-> id, duration |-> duration], t)>>
    ELSE IF status = "failed"
    THEN <<Event("session.failed", id, [sessionId |-> id, duration |-> duration], t)>>
    ELSE <<>>

\* variant: only completed stamps the end of the session
StampsEndCompletedOnly(status) == status = "completed"

\* the statuses for which setSessionStatus stamps endTime and duration
StampsEnd(status) == status = "completed" \/ status = "failed"

\* setSessionStatus(sessionId, status)
setSessionStatus(ss, id, status, t) ==
    LET g == getSession(ss, id, t) IN
    IF ~g.found
    THEN Outcome(g.sessions, "notFound", <<>>)
    ELSE LET s == g.sessions[id]
             u1 == [s EXCEPT !.status = status, !.updated_at = t]
             u == IF StampsEnd(status)
                  THEN [u1 EXCEPT !.metadata.endTime = t,
                                  !.metadata.duration = t - s.metadata.startTime]
                  ELSE u1
         IN Outcome(MapSet(g.sessions, id, u), "ok",
                    StatusEvents(id, status, s.status, u.metadata.duration, t))

\* variant: the record is put at the front of the raw buffer
addExtractedDataFront(ss, id, data, t) ==
    IF id \notin DOMAIN ss \/ t > ss[id].expires_at
    THEN Outcome(IF id \in DOMAIN ss
                 THEN MapSet(ss, id, [ss[id] EXCEPT !.status = "expired", !.updated_at = t])
                 ELSE ss, "notFound", <<>>)
    ELSE LET u == [ss[id] EXCEPT !.data.rawData = <<data>> \o @,
                                 !.progress.dataPointsExtracted = @ + 1,
                                 !.updated_at = t]
         IN Outcome(MapSet(ss, id, u), "ok",
                    <<Event("data.extracted", id, [dataCount |-> Len(u.data.rawData)], t)>>)

\* addExtractedData(sessionId, data)
addExtractedData(ss, id, data, t) ==
    LET g == getSession(ss, id, t) IN
    IF ~g.found
    THEN Outcome(g.sessions, "notFound", <<>>)
    ELSE LET s == g.sessions[id]
             u == [s EXCEPT !.data.rawData = Append(@, data),
                            !.progress.dataPointsExtracted = @ + 1,
                            !.updated_at = t]
         IN Outcome(MapSet(g.sessions, id, u), "ok",
                    <<Event("data.extracted", id,
                            [dataCount |-> Len(u.data.rawData)], t)>>)

\* variant: recording an error renews the deadline of the session
recordErrorRenews(ss, id, fatal, t) ==
    IF id \notin DOMAIN ss \/ t > ss[id].expires_at
    THEN Outcome(IF id \in DOMAIN ss
                 THEN MapSet(ss, id, [ss[id] EXCEPT !.status = "expired", !.updated_at = t])
                 ELSE ss, "notFound", <<>>)
    ELSE LET u == [ss[id] EXCEPT !.progress.errorsEncountered = @ + 1,
                                 !.status = IF fatal THEN "failed" ELSE @,
                                 !.metadata.endTime = IF fatal THEN t ELSE @,
                                 !.updated_at = t,
                                 !.expires_at = t + (@ - ss[id].created_at)]
         IN Outcome(MapSet(ss, id, u), "ok",
                    <<Event("error.occurred", id, [error |-> "err", fatal |-> fatal], t)>>)

\* recordError(sessionId, error, fatal)
recordError(ss, id, fatal, t) ==
    LET g == getSession(ss, id, t) IN
    IF ~g.found
    THEN Outcome(g.sessions, "notFound", <<>>)
    ELSE LET s == g.sessions[id]
             u1 == [s EXCEPT !.progress.errorsEncountered = @ + 1]
             u2 == IF fatal
                   THEN [u1 EXCEPT !.status = "failed", !.metadata.endTime = t]
                   ELSE u1
             u == [u2 EXCEPT !.updated_at = t]
         IN Outcome(MapSet(g.sessions, id, u), "ok",
                    <<Event("error.occurred", id,
                            [error |-> "err", fatal |-> fatal], t)>>)

\* variant: the retention test is applied to expired sessions too
ShouldCleanupAllIdle(session, t) ==
    /\ \/ isSessionExpired(session, t)
       \/ session.status = "completed"
       \/ session.status = "failed"
    /\ (t - session.updated_at) > RetentionMs

\* the test of the first loop of cleanup
ShouldCleanup(session, t) ==
    \/ isSessionExpired(session, t)
    \/ /\ (session.status = "completed" \/ session.status = "failed")
       /\ (t - session.updated_at) > RetentionMs

RECURSIVE DeleteAll(_, _)
\* the second loop of cleanup: deleteSession for every collected id
DeleteAll(ss, ids) ==
    IF ids = {} THEN ss
    ELSE LET id == CHOOSE x \in ids : TRUE
         IN DeleteAll(deleteSession(ss, id), ids \ {id})

\* the array expiredSessions collected by the first loop of cleanup, as a set
expiredSessions(ss, t) == {id \in DOMAIN ss : ShouldCleanup(ss[id], t)}

\* cleanup()
cleanup(ss, t) == DeleteAll(ss, expiredSessions(ss, t))

\* getActiveSessions(), as the set of the ids of the sessions returned
getActiveSessions(ss, t) ==
    {id \in DOMAIN ss : /\ ~isSessionExpired(ss[id], t)
                        /\ ss[id].status # "completed"
                        /\ ss[id].status # "failed"}

(* --------------------------- subscriptions ------------------------------ *)
MaxSubs == 2         \* subscriptions created in one behaviour

\* '' handed to subscribe() as sessionId
EmptyString == 0 - 2

\* what a callback does when it is invoked: it returns, it throws, it calls
\* addExtractedData on the session that has started, it unsubscribes the
\* subscription created after its own, or it subscribes another callback to
\* the type of the event it is handed
Callbacks == {"returns", "throws", "adds data", "unsubscribes", "subscribes"}

\* the arguments the callers pass to subscribe()
SubscribeInputs ==
    {[sessionId |-> Undefined, eventTypes |-> {"session.created", "session.started"},
      callback |-> "returns"],
     [sessionId |-> Undefined, eventTypes |-> {"session.started", "data.extracted"},
      callback |-> "throws"],
     [sessionId |-> 1, eventTypes |-> {"session.started", "data.extracted"},
      callback |-> "returns"],
     [sessionId |-> 2, eventTypes |-> {"session.started"}, callback |-> "returns"],
     [sessionId |-> EmptyString, eventTypes |-> {"session.started"}, callback |-> "returns"],
     [sessionId |-> Undefined, eventTypes |-> {"session.started", "data.extracted"},
      callback |-> "adds data"],
     [sessionId |-> Undefined, eventTypes |-> {"session.created", "session.started"},
      callback |-> "unsubscribes"],
     [sessionId |-> Undefined, eventTypes |-> {"session.created"}, callback |-> "subscribes"]}

\* subscribe(): the EventSubscription stored under a fresh id
subscribe(subs, sid, sessionId, eventTypes, callback, t) ==
    MapSet(subs, sid, [id |-> sid, sessionId |-> sessionId, eventTypes |-> eventTypes,
                       callback |-> callback, created |-> t, active |-> TRUE])

\* unsubscribe(): eventSubscriptions.delete
unsubscribe(subs, sid) == MapDelete(subs, sid)

\* the test emitEvent makes before it invokes a callback: !sessionId holds
\* for undefined and for ''
Matches(sub, ev) ==
    /\ sub.active
    /\ ev.type \in sub.eventTypes
    /\ (sub.sessionId \in {Undefined, EmptyString} \/ sub.sessionId = ev.sessionId)

\* one callback invocation: who was called, with what, during which
\* operation, and whether the callback threw
Invocation(sub, ev, n, threw) == [sub |-> sub.id, event |-> ev, op |-> n, threw |-> threw]

\* the registry while an operation runs: the two maps, the uuids handed out,
\* the invocations and operations so far, the events of this step
Registry(ss, subs, next, log, n, events) ==
    [sessions |-> ss, eventSubscriptions |-> subs, nextSub |-> next, calls |-> log,
     ops |-> n, emitted |-> events]

\* the entry the iterator of eventSubscriptions.values() yields behind the
\* one yielded last: the Map is read as it is at that moment, in insertion
\* order, which is the order of the ids; 0 when the iterator is exhausted
nextSubscription(subs, visited) ==
    IF \E sid \in DOMAIN subs : sid > visited
    THEN CHOOSE sid \in DOMAIN subs :
             sid > visited /\ \A other \in DOMAIN subs : other > visited => sid <= other
    ELSE 0

RECURSIVE callback(_, _, _, _, _)
RECURSIVE NotifyUncaught(_, _, _, _, _)
RECURSIVE Notify(_, _, _, _, _)
RECURSIVE emitEvents(_, _, _, _)

\* the call of addExtractedData a callback makes: one more operation, which
\* emits its own event before it returns to the callback
addsData(reg, r, sub, ev, n, t) ==
    emitEvents([reg EXCEPT !.sessions = r.sessions, !.ops = @ + 1,
                           !.calls = Append(@, Invocation(sub, ev, n, r.ret # "ok"))],
               r.events, reg.ops + 1, t)

\* subscription.callback(event) during operation n: the callback runs inside
\* emitEvent, on the registry as it is
callback(reg, sub, ev, n, t) ==
    CASE sub.callback = "adds data" /\ ev.type = "session.started" ->
             addsData(reg, addExtractedData(reg.sessions, ev.sessionId, "d2", t), sub, ev, n, t)
      [] sub.callback = "unsubscribes" ->
             [reg EXCEPT !.eventSubscriptions = unsubscribe(@, sub.id + 1),
                         !.calls = Append(@, Invocation(sub, ev, n, FALSE))]
      [] sub.callback = "subscribes" ->
             [reg EXCEPT !.eventSubscriptions =
                             subscribe(@, reg.nextSub, Undefined, {ev.type}, "returns", t),
                         !.nextSub = @ + 1,
                         !.calls = Append(@, Invocation(sub, ev, n, FALSE))]
      [] OTHER ->
             [reg EXCEPT !.calls = Append(@, Invocation(sub, ev, n, sub.callback = "throws"))]

\* one pass of the loop of emitEvent: the callback is invoked when the
\* subscription matches, inside a try/catch
visit(reg, sub, ev, n, t) ==
    IF Matches(sub, ev) THEN callback(reg, sub, ev, n, t) ELSE reg

\* the pass of the variant: a callback that throws ends the loop
visitUncaught(reg, sid, ev, n, t) ==
    IF Matches(reg.eventSubscriptions[sid], ev) /\ reg.eventSubscriptions[sid].callback = "throws"
    THEN callback(reg, reg.eventSubscriptions[sid], ev, n, t)
    ELSE NotifyUncaught(visit(reg, reg.eventSubscriptions[sid], ev, n, t), sid, ev, n, t)

\* variant: no try/catch around the callback, the first throw ends the loop
NotifyUncaught(reg, visited, ev, n, t) ==
    IF nextSubscription(reg.eventSubscriptions, visited) = 0 THEN reg
    ELSE visitUncaught(reg, nextSubscription(reg.eventSubscriptions, visited), ev, n, t)

\* the loop of emitEvent over the live Map, from the entry behind the one
\* visited last
Notify(reg, visited, ev, n, t) ==
    IF nextSubscription(reg.eventSubscriptions, visited) = 0 THEN reg
    ELSE Notify(visit(reg, reg.eventSubscriptions[nextSubscription(reg.eventSubscriptions, visited)],
                      ev, n, t),
                nextSubscription(reg.eventSubscriptions, visited), ev, n, t)

\* emitEvent of operation n: the event is built, then handed to the callbacks
emitEvent(reg, ev, n, t) == Notify([reg EXCEPT !.emitted = Append(@, ev)], 0, ev, n, t)

\* the emitEvent calls of one operation, in the order it makes them
emitEvents(reg, events, n, t) ==
    IF events = <<>> THEN reg
    ELSE emitEvents(emitEvent(reg, Head(events), n, t), Tail(events), n, t)

(* ------------------------- data pipeline: values ------------------------ *)
\* JavaScript values: a string is its sequence of characters
Str(chars) == [t |-> "string", v |-> chars]
Num(n) == [t |-> "number", v |-> n]
Arr(items) == [t |-> "array", v |-> items]
Bool(b) == [t |-> "boolean", v |-> b]
Null == [t |-> "null", v |-> 0]
UndefinedValue == [t |-> "undefined", v |-> 0]

\* the outcome of an evaluation: a value, or a thrown error
Returned(v) == [threw |-> FALSE, v |-> v]
Thrown == [threw |-> TRUE, v |-> UndefinedValue]

\* the characters of the modelled strings
LowerChars == <<"a", "c", "e", "h", "i", "p", "s", "t", "v">>
UpperChars == <<"A", "C", "E", "H", "I", "P", "S", "T", "V">>
Digits == <<"0", "1", "2", "3", "4", "5", "6", "7", "8", "9">>
Whitespace == {" "}

\* a Map: its entries in insertion order, each a key with its value
EntryKeys(map) == {map[i].k : i \in 1..Len(map)}

\* map.get(key) for a key the map has
EntryGet(map, key) == map[CHOOSE j \in 1..Len(map) : map[j].k = key].v

\* map.set(key, value): a key the map has keeps its place, a new one goes last
EntrySet(map, key, value) ==
    IF key \in EntryKeys(map)
    THEN [i \in 1..Len(map) |-> IF map[i].k = key THEN [k |-> key, v |-> value] ELSE map[i]]
    ELSE Append(map, [k |-> key, v |-> value])

\* the properties every plain object inherits from Object.prototype
Function(name) == [t |-> "function", v |-> name]
ObjectPrototype ==
    <<[k |-> "constructor", v |-> Function("Object")],
      [k |-> "__proto__",
       v |-> [t |-> "object", v |-> "Object.prototype", ref |-> "Object.prototype"]],
      [k |-> "hasOwnProperty", v |-> Function("hasOwnProperty")],
      [k |-> "isPrototypeOf", v |-> Function("isPrototypeOf")],
      [k |-> "propertyIsEnumerable", v |-> Function("propertyIsEnumerable")],
      [k |-> "toLocaleString", v |-> Function("toLocaleString")],
      [k |-> "toString", v |-> Function("toString")],
      [k |-> "valueOf", v |-> Function("valueOf")],
      [k |-> "__defineGetter__", v |-> Function("__defineGetter__")],
      [k |-> "__defineSetter__", v |-> Function("__defineSetter__")],
      [k |-> "__lookupGetter__", v |-> Function("__lookupGetter__")],
      [k |-> "__lookupSetter__", v |-> Function("__lookupSetter__")]>>

\* a plain object: its own properties in the order of Object.keys, each key
\* with its value
ObjKeys(obj) == EntryKeys(obj)

\* key in obj: an own or an inherited property
ObjHas(obj, key) == key \in ObjKeys(obj) \cup EntryKeys(ObjectPrototype)

\* obj[key]: the own property, else the inherited one, else undefined
ObjGet(obj, key) ==
    IF key \in ObjKeys(obj) THEN EntryGet(obj, key)
    ELSE IF key \in EntryKeys(ObjectPrototype) THEN EntryGet(ObjectPrototype, key)
    ELSE UndefinedValue

\* the keys that are array indices, up to MaxArrayIndex, by their number
MaxArrayIndex == 99
ArrayIndexKeys == [n \in 0..MaxArrayIndex |-> ToString(n)]
IsArrayIndex(key) == \E n \in DOMAIN ArrayIndexKeys : ArrayIndexKeys[n] = key
ArrayIndex(key) == CHOOSE n \in DOMAIN ArrayIndexKeys : ArrayIndexKeys[n] = key

\* the own properties that come before a new array index key: the smaller
\* array indices
IndexKeysBefore(obj, key) ==
    Cardinality({i \in 1..Len(obj) :
                    IsArrayIndex(obj[i].k) /\ ArrayIndex(obj[i].k) < ArrayIndex(key)})

\* the entry is put after the first n entries
InsertAfter(obj, n, entry) == SubSeq(obj, 1, n) \o <<entry>> \o SubSeq(obj, n + 1, Len(obj))

\* { ...obj, [key]: value } and obj[key] = value (key is not '__proto__' in
\* an assignment): an own key keeps its place; a new array index goes among
\* the array indices, which come first in ascending order; any other new
\* key goes last
ObjSet(obj, key, value) ==
    IF key \in ObjKeys(obj) THEN EntrySet(obj, key, value)
    ELSE IF IsArrayIndex(key)
    THEN InsertAfter(obj, IndexKeysBefore(obj, key), [k |-> key, v |-> value])
    ELSE Append(obj, [k |-> key, v |-> value])

\* String.prototype.toUpperCase / toLowerCase, character by character
CharIndex(table, c) == CHOOSE i \in 1..Len(table) : table[i] = c
InTable(table, c) == \E i \in 1..Len(table) : table[i] = c
toUpperCase(s) ==
    [i \in 1..Len(s) |-> IF InTable(LowerChars, s[i])
                         THEN UpperChars[CharIndex(LowerChars, s[i])] ELSE s[i]]
toLowerCase(s) ==
    [i \in 1..Len(s) |-> IF InTable(UpperChars, s[i])
                         THEN LowerChars[CharIndex(UpperChars, s[i])] ELSE s[i]]

\* String.prototype.trim
RECURSIVE trimStart(_)
trimStart(s) ==
    IF s # <<>> /\ Head(s) \in Whitespace THEN trimStart(Tail(s)) ELSE s
RECURSIVE trimEnd(_)
trimEnd(s) ==
    IF s # <<>> /\ s[Len(s)] \in Whitespace THEN trimEnd(SubSeq(s, 1, Len(s) - 1)) ELSE s
trim(s) == trimEnd(trimStart(s))

\* String.prototype.startsWith / endsWith / includes
startsWith(s, part) == Len(part) <= Len(s) /\ SubSeq(s, 1, Len(part)) = part
endsWith(s, part) ==
    Len(part) <= Len(s) /\ SubSeq(s, Len(s) - Len(part) + 1, Len(s)) = part
includes(s, part) ==
    \E i \in 1..(Len(s) - Len(part) + 1) : SubSeq(s, i, i + Len(part) - 1) = part

\* the characters of s that satisfy Keep, in order
RECURSIVE FilterChars(_, _)
FilterChars(s, keep) ==
    IF s = <<>> THEN <<>>
    ELSE (IF Head(s) \in keep THEN <<Head(s)>> ELSE <<>>) \o FilterChars(Tail(s), keep)

Range(table) == {table[i] : i \in 1..Len(table)}
Alphanumeric == Range(LowerChars) \cup Range(UpperChars) \cup Range(Digits)

\* the metacharacters no modelled pattern contains
RegExpMeta == {"\\", "^", "$", "*", "+", "?", "[", "]", "{", "}", "|"}

\* new RegExp(pattern) for a pattern of literal characters, the wildcard .
\* and groups: an unmatched parenthesis is a SyntaxError
RECURSIVE Unbalanced(_, _)
Unbalanced(pattern, depth) ==
    IF pattern = <<>> THEN depth # 0
    ELSE IF Head(pattern) = "(" THEN Unbalanced(Tail(pattern), depth + 1)
    ELSE IF Head(pattern) = ")" THEN depth = 0 \/ Unbalanced(Tail(pattern), depth - 1)
    ELSE Unbalanced(Tail(pattern), depth)
RegExpThrows(pattern) ==
    CASE \A i \in 1..Len(pattern) : pattern[i] \notin RegExpMeta -> Unbalanced(pattern, 0)

\* what the pattern matches, one character each: its text without the groups
Atoms(pattern) == SelectSeq(pattern, LAMBDA c : c \notin {"(", ")"})

\* the pattern matches at the start of s
matchesAt(s, atoms) ==
    /\ Len(atoms) <= Len(s)
    /\ \A k \in 1..Len(atoms) :
           IF atoms[k] = "." THEN s[k] \notin {"\n", "\r"} ELSE s[k] = atoms[k]

\* new RegExp(pattern).test(s)
test(pattern, s) ==
    \E i \in 1..(Len(s) - Len(Atoms(pattern)) + 1) :
        matchesAt(SubSeq(s, i, Len(s)), Atoms(pattern))

\* s.replace(new RegExp(pattern, 'g'), replacement), atoms the Atoms of the
\* pattern: an empty match is replaced before every character and at the end
RECURSIVE replaceAll(_, _, _)
replaceAll(s, atoms, replacement) ==
    IF atoms = <<>>
    THEN replacement \o (IF s = <<>> THEN <<>>
                         ELSE <<Head(s)>> \o replaceAll(Tail(s), atoms, replacement))
    ELSE IF s = <<>> THEN <<>>
    ELSE IF matchesAt(s, atoms)
         THEN replacement \o replaceAll(SubSeq(s, Len(atoms) + 1, Len(s)), atoms, replacement)
         ELSE <<Head(s)>> \o replaceAll(Tail(s), atoms, replacement)

\* String.prototype.replace with a replacement text that holds no $ pattern
replace(s, pattern, replacement) ==
    CASE \A i \in 1..Len(replacement) : replacement[i] # "$" ->
             replaceAll(s, Atoms(pattern), replacement)

(* ------------------------ data pipeline: numbers ------------------------ *)
\* NaN; typeof NaN is 'number'
NaN == [t |-> "nan", v |-> 0]

\* typeof value === 'number'
IsNumber(value) == value.t \in {"number", "fraction", "nan"}

RECURSIVE gcd(_, _)
gcd(a, b) == IF b = 0 THEN a ELSE gcd(b, a % b)

\* the number n / d for d > 0: an integer when d divides n, otherwise the
\* fraction in lowest terms
Fraction(n, d) ==
    IF n % d = 0 THEN Num(n \div d)
    ELSE LET g == gcd(IF n < 0 THEN 0 - n ELSE n, d)
         IN [t |-> "fraction", v |-> Ratio(n \div g, d \div g)]

Numerator(x) == IF x.t = "fraction" THEN x.v[1] ELSE x.v
Denominator(x) == IF x.t = "fraction" THEN x.v[2] ELSE 1

\* x < y and x <= y on numbers: false when either is NaN
Less(x, y) ==
    /\ x.t # "nan" /\ y.t # "nan"
    /\ Numerator(x) * Denominator(y) < Numerator(y) * Denominator(x)
LessEq(x, y) ==
    /\ x.t # "nan" /\ y.t # "nan"
    /\ Numerator(x) * Denominator(y) <= Numerator(y) * Denominator(x)

\* the number written by a string of digits
RECURSIVE parseDigits(_, _)
parseDigits(s, acc) ==
    IF s = <<>> THEN acc
    ELSE parseDigits(Tail(s), acc * 10 + (CharIndex(Digits, Head(s)) - 1))

\* the digits s starts with
RECURSIVE digitPrefix(_)
digitPrefix(s) ==
    IF s # <<>> /\ Head(s) \in Range(Digits)
    THEN <<Head(s)>> \o digitPrefix(Tail(s)) ELSE <<>>

RECURSIVE Pow10(_)
Pow10(k) == IF k = 0 THEN 1 ELSE 10 * Pow10(k - 1)

\* the number written sign, integer digits, fraction digits
Decimal(negative, int, frac) ==
    LET n == parseDigits(int, 0) * Pow10(Len(frac)) + parseDigits(frac, 0)
    IN Fraction(IF negative THEN 0 - n ELSE n, Pow10(Len(frac)))

\* the parts of a decimal literal at the start of s, and what follows it
DecimalPrefix(s) ==
    LET signed == s # <<>> /\ Head(s) \in {"-", "+"}
        body == IF signed THEN Tail(s) ELSE s
        int == digitPrefix(body)
        rest == SubSeq(body, Len(int) + 1, Len(body))
        dot == rest # <<>> /\ Head(rest) = "."
        frac == IF dot THEN digitPrefix(Tail(rest)) ELSE <<>>
    IN [negative |-> signed /\ Head(s) = "-", int |-> int, frac |-> frac,
        tail |-> SubSeq(rest, (IF dot THEN 1 ELSE 0) + Len(frac) + 1, Len(rest))]

\* parseFloat(s) for text without an exponent: the longest decimal literal
\* s starts with, NaN when there is none
parseFloat(s) ==
    LET p == DecimalPrefix(trimStart(s)) IN
    IF p.int = <<>> /\ p.frac = <<>> THEN NaN ELSE Decimal(p.negative, p.int, p.frac)

\* Number(s) for a string: the whole trimmed text is a decimal literal (text
\* with an exponent, a radix prefix or Infinity is not modelled)
StringToNumber(s) ==
    LET t == trim(s)
        p == DecimalPrefix(t)
    IN IF t = <<>> THEN Num(0)
       ELSE IF p.int = <<>> /\ p.frac = <<>>
       THEN CASE ~endsWith(t, <<"I", "n", "f", "i", "n", "i", "t", "y">>) -> NaN
       ELSE IF p.tail = <<>> THEN Decimal(p.negative, p.int, p.frac)
       ELSE CASE Head(p.tail) \notin {"e", "E", "x", "X", "o", "O", "b", "B"} -> NaN

\* ToNumber(value), as < > <= >= and Number() apply it to a primitive value
ToNumber(value) ==
    CASE IsNumber(value) -> value
      [] value.t = "boolean" -> Num(IF value.v THEN 1 ELSE 0)
      [] value.t = "null" -> Num(0)
      [] value.t \in {"undefined", "function"} -> NaN
      [] value.t = "string" -> StringToNumber(value.v)

\* the decimal digits of n >= 0
RECURSIVE digitsOf(_)
digitsOf(n) ==
    IF n < 10 THEN <<Digits[n + 1]>>
    ELSE digitsOf(n \div 10) \o <<Digits[(n % 10) + 1]>>

\* String(value) for a primitive value
String(value) ==
    CASE value.t = "string" -> value.v
      [] value.t = "number" ->
             IF value.v < 0 THEN <<"-">> \o digitsOf(0 - value.v) ELSE digitsOf(value.v)
      [] value.t = "boolean" ->
             IF value.v THEN <<"t", "r", "u", "e">> ELSE <<"f", "a", "l", "s", "e">>
      [] value.t = "null" -> <<"n", "u", "l", "l">>
      [] value.t = "undefined" -> <<"u", "n", "d", "e", "f", "i", "n", "e", "d">>
      [] value.t = "nan" -> <<"N", "a", "N">>

\* value[i] for an index i >= 0
Index(value, i) ==
    CASE value.t = "array" -> IF i < Len(value.v) THEN value.v[i + 1] ELSE UndefinedValue
      [] value.t = "string" ->
             IF i < Len(value.v) THEN Str(<<value.v[i + 1]>>) ELSE UndefinedValue
      [] IsNumber(value) \/ value.t = "boolean" -> UndefinedValue

(* ---------------------- data pipeline: cleaning rules ------------------- *)
\* the names initializeBuiltInTransformations and initializeBuiltInValidators register
TransformerNames == {"uppercase", "lowercase", "trim", "removeSpecialChars", "parseNumber"}
ValidatorNames == {"email", "url", "phone", "date"}

\* a parameter bag; "", <<>> and FALSE stand for an absent (falsy) entry
Parameters(transformer, validator, case, pattern, replacement) ==
    [transformer |-> transformer, validator |-> validator, case |-> case,
     trim |-> FALSE, type |-> "", pattern |-> pattern, replacement |-> replacement]
NoParameters == Parameters("", "", "", <<>>, <<>>)

\* the built-in transformers
transformer(name, value) ==
    IF value.t # "string" THEN value
    ELSE CASE name = "uppercase" -> Str(toUpperCase(value.v))
           [] name = "lowercase" -> Str(toLowerCase(value.v))
           [] name = "trim" -> Str(trim(value.v))
           [] name = "removeSpecialChars" ->
                  Str(FilterChars(value.v, Alphanumeric \cup Whitespace))
           [] name = "parseNumber" ->
                  LET parsed == parseFloat(FilterChars(value.v,
                                               Range(Digits) \cup {".", "-"})) IN
                  IF parsed.t = "nan" THEN value ELSE parsed

\* the characters the phone pattern accepts after an optional leading +
PhoneChars == Range(Digits) \cup Whitespace \cup {"-", "(", ")"}

\* the built-in validators email and phone (url and date are registered too;
\* no modelled rule names them)
validator(name, value) ==
    CASE name = "phone" ->
             /\ value.t = "string"
             /\ LET body == IF value.v # <<>> /\ Head(value.v) = "+"
                            THEN Tail(value.v) ELSE value.v
                IN /\ body # <<>>
                   /\ \A i \in 1..Len(body) : body[i] \in PhoneChars
      [] name = "email" ->
             /\ value.t = "string"
             /\ \A i \in 1..Len(value.v) : value.v[i] \notin Whitespace
             /\ \E at \in 2..Len(value.v) :
                    /\ value.v[at] = "@"
                    /\ \A i \in 1..Len(value.v) : value.v[i] = "@" => i = at
                    /\ \E dot \in (at + 2)..(Len(value.v) - 1) : value.v[dot] = "."

normalizeValue(value, parameters) ==
    IF value.t = "string"
    THEN IF parameters.case = "upper" THEN Str(toUpperCase(value.v))
         ELSE IF parameters.case = "lower" THEN Str(toLowerCase(value.v))
         ELSE IF parameters.trim THEN Str(trim(value.v))
         ELSE value
    ELSE value

\* formatValue for every parameters.type but 'date'
formatValue(value, parameters) ==
    CASE parameters.type # "date" -> value

validateValue(value, parameters) ==
    IF parameters.validator # "" /\ parameters.validator \in ValidatorNames
    THEN validator(parameters.validator, value)
    ELSE TRUE

\* the message of the SyntaxError new RegExp throws
RegExpError == "Invalid regular expression"

\* the DataTransformation applyCleaningRule returns
Transformation(rule, before, after, success, error) ==
    [field |-> rule.field, operation |-> rule.operation, parameters |-> rule.parameters,
     before |-> before, after |-> after, success |-> success, error |-> error]

applyCleaningRule(data, rule) ==
    LET fieldValue == ObjGet(data, rule.field)
        op == rule.operation
        unchanged == Transformation(rule, fieldValue, fieldValue, TRUE, "")
    IN
    IF op = "trim"
    THEN Transformation(rule, fieldValue,
             IF fieldValue.t = "string" THEN Str(trim(fieldValue.v)) ELSE fieldValue,
             TRUE, "")
    ELSE IF op = "normalize"
    THEN Transformation(rule, fieldValue, normalizeValue(fieldValue, rule.parameters),
                        TRUE, "")
    ELSE IF op = "format"
    THEN Transformation(rule, fieldValue, formatValue(fieldValue, rule.parameters),
                        TRUE, "")
    ELSE IF op = "validate"
    THEN IF validateValue(fieldValue, rule.parameters)
         THEN unchanged
         ELSE Transformation(rule, fieldValue, fieldValue, FALSE, "Validation failed")
    ELSE IF op = "transform"
    THEN IF /\ rule.parameters.transformer # ""
            /\ rule.parameters.transformer \in TransformerNames
         THEN Transformation(rule, fieldValue,
                  transformer(rule.parameters.transformer, fieldValue), TRUE, "")
         ELSE unchanged
    ELSE IF op = "filter"
    THEN unchanged
    ELSE IF op = "replace"
    THEN IF /\ fieldValue.t = "string"
            /\ rule.parameters.pattern # <<>>
            /\ rule.parameters.replacement # <<>>
         THEN IF RegExpThrows(rule.parameters.pattern)
              THEN Transformation(rule, fieldValue, fieldValue, FALSE, RegExpError)
              ELSE Transformation(rule, fieldValue,
                       Str(replace(fieldValue.v, rule.parameters.pattern,
                                   rule.parameters.replacement)), TRUE, "")
         ELSE unchanged
    ELSE Transformation(rule, fieldValue, fieldValue, FALSE, "Unknown operation")

\* a === b: primitive values and functions by their value, NaN equal to
\* nothing; an array or an object is equal to itself only, and of the
\* modelled values those with a ref are one object each, every other array
\* or object is an object of its own
StrictEquals(a, b) ==
    /\ a.t = b.t
    /\ a.t # "nan"
    /\ IF a.t \in {"array", "object"}
       THEN "ref" \in DOMAIN a /\ "ref" \in DOMAIN b /\ a.ref = b.ref
       ELSE a.v = b.v

\* one condition of a rule, before its negate flag
conditionMatches(fieldValue, condition) ==
    LET op == condition.operator
        value == condition.value
    IN
    IF op = "equals" THEN Returned(StrictEquals(fieldValue, value))
    ELSE IF op = "contains"
    THEN Returned(fieldValue.t = "string" /\ includes(fieldValue.v, String(value)))
    ELSE IF op = "startsWith"
    THEN Returned(fieldValue.t = "string" /\ startsWith(fieldValue.v, String(value)))
    ELSE IF op = "endsWith"
    THEN Returned(fieldValue.t = "string" /\ endsWith(fieldValue.v, String(value)))
    ELSE IF op = "matches"
    THEN LET pattern == IF value.t = "undefined" THEN <<>> ELSE String(value) IN
         IF fieldValue.t # "string" THEN Returned(FALSE)
         ELSE IF RegExpThrows(pattern) THEN Thrown
         ELSE Returned(test(pattern, fieldValue.v))
    ELSE IF op = "gt"
    THEN Returned(IsNumber(fieldValue) /\ Less(ToNumber(value), fieldValue))
    ELSE IF op = "lt"
    THEN Returned(IsNumber(fieldValue) /\ Less(fieldValue, ToNumber(value)))
    ELSE IF op = "between"
    THEN IF ~IsNumber(fieldValue) THEN Returned(FALSE)
         ELSE IF value.t \in {"undefined", "null"} THEN Thrown
         ELSE Returned(/\ LessEq(ToNumber(Index(value, 0)), fieldValue)
                       /\ LessEq(fieldValue, ToNumber(Index(value, 1))))
    ELSE Returned(FALSE)

\* variant: one matching condition is enough
RECURSIVE matchesConditionsAny(_, _)
matchesConditionsAny(data, conditions) ==
    IF conditions = <<>> THEN Returned(TRUE)
    ELSE LET condition == Head(conditions)
             m == conditionMatches(ObjGet(data, condition.field), condition)
         IN IF m.threw THEN Thrown
            ELSE IF m.v # condition.negate THEN Returned(TRUE)
            ELSE IF Len(conditions) = 1 THEN Returned(FALSE)
            ELSE matchesConditionsAny(data, Tail(conditions))

\* matchesConditions: the conditions in order, false at the first that fails
RECURSIVE matchesConditions(_, _)
matchesConditions(data, conditions) ==
    IF conditions = <<>> THEN Returned(TRUE)
    ELSE LET condition == Head(conditions)
             m == conditionMatches(ObjGet(data, condition.field), condition)
         IN IF m.threw THEN Thrown
            ELSE IF m.v = condition.negate THEN Returned(FALSE)
            ELSE matchesConditions(data, Tail(conditions))

\* the rule loop of processData on one record: the cleaned object and the
\* transformations so far, or the error thrown by a condition
RECURSIVE applyRules(_, _, _)
applyRules(cleaned, transformations, rules) ==
    IF rules = <<>>
    THEN [threw |-> FALSE, cleaned |-> cleaned, transformations |-> transformations]
    ELSE LET rule == Head(rules)
             fires == matchesConditions(cleaned, rule.conditions)
         IN IF fires.threw
            THEN [threw |-> TRUE, cleaned |-> cleaned, transformations |-> transformations]
            ELSE IF fires.v
            THEN LET transformation == applyCleaningRule(cleaned, rule) IN
                 applyRules(ObjSet(cleaned, rule.field, transformation.after),
                            Append(transformations, transformation), Tail(rules))
            ELSE applyRules(cleaned, transformations, Tail(rules))

(* ------------------------ data pipeline: quality ------------------------ *)
\* value !== null && value !== undefined && value !== ''
NonEmpty(value) ==
    /\ value.t \notin {"null", "undefined"}
    /\ ~(value.t = "string" /\ value.v = <<>>)

isValueConsistent(value) == value.t \notin {"null", "undefined"}

\* validateFieldValue for the rule types required, range, length and unknown
validateFieldValue(value, rule) ==
    IF rule.type = "required" THEN Returned(NonEmpty(value))
    ELSE IF rule.type = "range"
    THEN IF ~IsNumber(value) THEN Returned(FALSE)
         ELSE IF rule.value.t \in {"undefined", "null"} THEN Thrown
         ELSE Returned(/\ LessEq(ToNumber(Index(rule.value, 0)), value)
                       /\ LessEq(value, ToNumber(Index(rule.value, 1))))
    ELSE IF rule.type = "length"
    THEN Returned(value.t = "string" /\ LessEq(Num(Len(value.v)), ToNumber(rule.value)))
    ELSE CASE rule.type \notin {"format", "pattern"} -> Returned(TRUE)

QualityIssue(type, field, severity) == [type |-> type, field |-> field, severity |-> severity]

\* validationRules.filter(rule => !rule.validator || rule.validator === field)
RECURSIVE fieldRules(_, _)
fieldRules(validationRules, field) ==
    IF validationRules = <<>> THEN <<>>
    ELSE (IF Head(validationRules).validator \in {"", field}
          THEN <<Head(validationRules)>> ELSE <<>>)
             \o fieldRules(Tail(validationRules), field)

\* the validation rules of one field: passes, issues, or the error thrown
RECURSIVE validateField(_, _, _, _)
validateField(field, value, rules, acc) ==
    IF rules = <<>> THEN acc
    ELSE LET isValid == validateFieldValue(value, Head(rules)) IN
         IF isValid.threw THEN [acc EXCEPT !.threw = TRUE]
         ELSE validateField(field, value, Tail(rules),
                  IF isValid.v
                  THEN [acc EXCEPT !.accurate = @ + 1]
                  ELSE [acc EXCEPT !.issues = Append(@, QualityIssue("invalid", field, "high"))])

\* the completeness check of one field
checkCompleteness(field, value, acc) ==
    IF NonEmpty(value)
    THEN [acc EXCEPT !.completed = @ + 1]
    ELSE [acc EXCEPT !.issues = Append(@, QualityIssue("missing", field, "medium"))]

\* the consistency check of one field, not reached when a rule threw
checkConsistency(field, value, acc) ==
    IF acc.threw THEN acc
    ELSE IF isValueConsistent(value)
    THEN [acc EXCEPT !.consistent = @ + 1]
    ELSE [acc EXCEPT !.issues = Append(@, QualityIssue("inconsistent", field, "low"))]

\* the loop of assessDataQuality over Object.entries(data)
RECURSIVE assessFields(_, _, _)
assessFields(entries, validationRules, acc) ==
    IF entries = <<>> \/ acc.threw THEN acc
    ELSE LET field == Head(entries).k
             value == Head(entries).v
         IN assessFields(Tail(entries), validationRules,
                checkConsistency(field, value,
                    validateField(field, value, fieldRules(validationRules, field),
                                  checkCompleteness(field, value, acc))))

\* the DataQuality assessDataQuality returns from its counters, or the error
\* it throws
DataQuality(fieldCount, a) ==
    [threw |-> a.threw,
     v |-> [completeness |-> IF fieldCount > 0 THEN Ratio(a.completed, fieldCount) ELSE Ratio(0, 1),
            accuracy |-> IF fieldCount > 0 THEN Ratio(a.accurate, fieldCount) ELSE Ratio(0, 1),
            consistency |-> IF fieldCount > 0 THEN Ratio(a.consistent, fieldCount) ELSE Ratio(0, 1),
            timeliness |-> Ratio(1, 1),
            issues |-> a.issues]]

\* assessDataQuality: the DataQuality of a cleaned record, or the error thrown
assessDataQuality(data, validationRules) ==
    DataQuality(Len(data),
                assessFields(data, validationRules,
                    [threw |-> FALSE, completed |-> 0, accurate |-> 0, consistent |-> 0,
                     issues |-> <<>>]))

(* -------------------------- data pipeline: jobs ------------------------- *)
ExportDelayMs == 1000        \* the timer performExport waits for
MaxAgeMs == 86400000         \* cleanupJobs: 24 hours

\* the odd m for which the double nearest m / 200, times 100, lies below m / 2
RoundsBelowHalf == {29, 57, 113, 115}

\* Math.round(n / d * 100) for 0 <= n <= d, in double arithmetic: the exact
\* quotient rounded half up, but for the halves the product falls short of
Percent(n, d) ==
    IF (200 * n) % d = 0 /\ (200 * n) \div d \in RoundsBelowHalf
    THEN (200 * n + d) \div (2 * d) - 1
    ELSE (200 * n + d) \div (2 * d)

\* an element of rawData that is null
NullRecord == [id |-> Undefined, raw |-> <<>>, isNull |-> TRUE]
ExtractedData(id, raw) == [id |-> id, raw |-> raw, isNull |-> FALSE]

\* the ProcessingJob processData registers
ProcessingJob(id, rawData, t) ==
    [id |-> id, status |-> "running", progress |-> 0, totalRecords |-> Len(rawData),
     processedRecords |-> 0, startTime |-> t, endTime |-> Undefined, errors |-> <<>>]

\* a processData call: its arguments (rawData is the caller's array batch,
\* as the call finds it), its loop index i, its local array, its promise,
\* whether it is inside a pass of the record loop, and the locals of that
\* pass: the record as cleaned so far, its transformations, the rules
\* still to test and the transformation awaited
Run(input, rawData) ==
    [batch |-> input.batch, rawData |-> rawData, cleaningRules |-> input.cleaningRules,
     validationRules |-> input.validationRules, i |-> 0, processedData |-> <<>>,
     promise |-> "pending", inPass |-> FALSE, cleaned |-> <<>>,
     transformations |-> <<>>, rules |-> <<>>, awaited |-> <<>>]

JobError(recordId, error, t) == [recordId |-> recordId, error |-> error, timestamp |-> t]

\* the ProcessedData record of one raw record
ProcessedData(uuid, raw, cleaned, transformations, quality, t) ==
    [id |-> uuid, originalId |-> raw.id, processed |-> cleaned,
     transformations |-> transformations, quality |-> quality, timestamp |-> t]

\* variant: a record that fails leaves no entry
recordFailedSilently(job, raw, t) == job

\* the catch of the record loop: the error is pushed under the record's id
recordFailed(job, raw, t) ==
    [job EXCEPT !.errors = Append(@, JobError(raw.id, "Processing failed", t))]

\* the outer catch of processData: the job fails and the error is rethrown
pipelineFailed(job, t) ==
    [job EXCEPT !.status = "failed", !.endTime = t,
                !.errors = Append(@, JobError("pipeline", "Pipeline failed", t))]

\* the rule loop of a pass from the rules still to test: the first rule
\* whose conditions match is applied and its result awaited; a condition
\* may throw; without such a rule the loop ends
RECURSIVE nextRule(_, _)
nextRule(cleaned, rules) ==
    IF rules = <<>> THEN [at |-> "end"]
    ELSE LET fires == matchesConditions(cleaned, Head(rules).conditions) IN
         IF fires.threw THEN [at |-> "throw"]
         ELSE IF fires.v
         THEN [at |-> "await", transformation |-> applyCleaningRule(cleaned, Head(rules)),
               rest |-> Tail(rules)]
         ELSE nextRule(cleaned, Tail(rules))

\* variant: the record is cleaned in place, cleaned being raw.raw itself
appliedInPlace(run) ==
    [run EXCEPT !.transformations = Append(@, run.awaited),
                !.cleaned = ObjSet(@, run.awaited.field, run.awaited.after),
                !.rawData[run.i + 1].raw = ObjSet(run.cleaned, run.awaited.field, run.awaited.after),
                !.awaited = <<>>]

\* the statements after the await: the transformation is pushed and its
\* result written into a fresh copy of the cleaned record
applied(run) ==
    [run EXCEPT !.transformations = Append(@, run.awaited),
                !.cleaned = ObjSet(@, run.awaited.field, run.awaited.after),
                !.awaited = <<>>]

\* the locals of a pass are gone when the pass ends
passEnds(run) ==
    [run EXCEPT !.i = @ + 1, !.inPass = FALSE, !.cleaned = <<>>, !.transformations = <<>>,
                !.rules = <<>>]

\* a processData call between two of its steps: the job in the queue, the
\* locals of the call and the next id to generate
ProcessDataCall(job, run, uuid) == [job |-> job, run |-> run, uuid |-> uuid]

\* variant: the new record is put in front of the array
processRecordPrepends(call, quality, t) ==
    LET raw == call.run.rawData[call.run.i + 1] IN
    IF quality.threw
    THEN ProcessDataCall(recordFailed(call.job, raw, t), passEnds(call.run), call.uuid)
    ELSE ProcessDataCall([call.job EXCEPT !.processedRecords = @ + 1,
                               !.progress = Percent(call.job.processedRecords + 1,
                                                    call.job.totalRecords)],
              [passEnds(call.run) EXCEPT !.processedData =
                   <<ProcessedData(call.uuid, raw, call.run.cleaned,
                                   call.run.transformations, quality.v, t)>> \o @],
              call.uuid + 1)

\* the end of a pass of the record loop, after its rule loop, quality the
\* DataQuality assessed or the error thrown up to there: the record is
\* pushed, or the catch files the error under the record's id
processRecord(call, quality, t) ==
    LET raw == call.run.rawData[call.run.i + 1] IN
    IF quality.threw
    THEN ProcessDataCall(recordFailed(call.job, raw, t), passEnds(call.run), call.uuid)
    ELSE ProcessDataCall([call.job EXCEPT !.processedRecords = @ + 1,
                               !.progress = Percent(call.job.processedRecords + 1,
                                                    call.job.totalRecords)],
              [passEnds(call.run) EXCEPT !.processedData =
                   Append(@, ProcessedData(call.uuid, raw, call.run.cleaned,
                                           call.run.transformations, quality.v, t))],
              call.uuid + 1)

\* the end of processData after the loop
processDataReturns(job, t) == [job EXCEPT !.status = "completed", !.endTime = t]

\* processData from where the call stands, at the test of the record loop
\* or in the rule loop of the pass on rawData[i], to its next await or to
\* its end: the array is returned, or a null element of rawData makes the
\* catch of the pass throw and the outer catch fail the job
RECURSIVE processData(_, _)
RECURSIVE ruleLoop(_, _, _)
processData(call, t) ==
    IF ~call.run.inPass
    THEN IF call.run.i = Len(call.run.rawData)
         THEN ProcessDataCall(processDataReturns(call.job, t),
                   [call.run EXCEPT !.promise = "resolved"], call.uuid)
         ELSE IF call.run.rawData[call.run.i + 1].isNull
         THEN ProcessDataCall(pipelineFailed(call.job, t),
                   [call.run EXCEPT !.promise = "rejected"], call.uuid)
         ELSE processData(ProcessDataCall(call.job,
                               [call.run EXCEPT !.inPass = TRUE,
                                                !.cleaned = call.run.rawData[call.run.i + 1].raw,
                                                !.transformations = <<>>,
                                                !.rules = call.run.cleaningRules],
                               call.uuid), t)
    ELSE ruleLoop(call, nextRule(call.run.cleaned, call.run.rules), t)

\* the rule loop at the step nextRule found: the call is suspended at the
\* await, or the pass ends and the record loop goes on
ruleLoop(call, step, t) ==
    IF step.at = "await"
    THEN ProcessDataCall(call.job,
              [call.run EXCEPT !.rules = step.rest, !.awaited = step.transformation],
              call.uuid)
    ELSE processData(processRecord(call,
                         IF step.at = "throw" THEN Thrown
                         ELSE assessDataQuality(call.run.cleaned, call.run.validationRules),
                         t), t)

\* the ExportJob of exportData, after the synchronous start of performExport
ExportJob(id, data, t) ==
    [id |-> id, status |-> "running", progress |-> 0, created |-> t, started |-> t,
     completed |-> Undefined, recordCount |-> data.length, fileSize |-> Undefined,
     error |-> ""]

\* performExport once its timer has fired: the three assignments in front
\* of JSON.stringify
performExportResumes(job, t) ==
    [job EXCEPT !.status = "completed", !.progress = 100, !.completed = t]

\* variant: a failing export is left as it was
performExportEndsSilent(job, data, t) ==
    IF data.json # Undefined THEN [job EXCEPT !.fileSize = data.json] ELSE job

\* job.fileSize = JSON.stringify(data).length and the catch around the
\* body: data.json is the length of JSON.stringify(data), Undefined when
\* stringify throws
performExportEnds(job, data, t) ==
    IF data.json # Undefined THEN [job EXCEPT !.fileSize = data.json]
    ELSE [job EXCEPT !.status = "failed", !.error = "Export failed", !.completed = t]

getProcessingJob(jobs, id) == IF id \in DOMAIN jobs THEN jobs[id] ELSE Undefined
getExportJob(jobs, id) == IF id \in DOMAIN jobs THEN jobs[id] ELSE Undefined

\* cleanupJobs on the processing jobs: endTime && now - endTime > maxAge
cleanupProcessingJobs(jobs, t) ==
    [id \in {j \in DOMAIN jobs : ~(jobs[j].endTime # Undefined
                                     /\ t - jobs[j].endTime > MaxAgeMs)} |-> jobs[id]]

\* cleanupJobs on the export jobs: completed && now - completed > maxAge
cleanupExportJobs(jobs, t) ==
    [id \in {j \in DOMAIN jobs : ~(jobs[j].completed # Undefined
                                     /\ t - jobs[j].completed > MaxAgeMs)} |-> jobs[id]]

(* ------------------------- data pipeline: inputs ------------------------ *)
MaxJobs == 2         \* processData and exportData calls in one behaviour

Entry(k, v) == [k |-> k, v |-> v]
Rule(field, operation, parameters, conditions) ==
    [field |-> field, operation |-> operation, parameters |-> parameters,
     conditions |-> conditions]
Condition(field, operator, value, negate) ==
    [field |-> field, operator |-> operator, value |-> value, negate |-> negate]
ValidationRule(type, target, value) == [type |-> type, validator |-> target, value |-> value]

Active == <<"a", "c", "t", "i", "v", "e">>
IsActive == Condition("status", "equals", Str(Active), FALSE)

\* raw records: idle without n, active with a name no pattern likes, padded
IdleRecord(id) ==
    ExtractedData(id, <<Entry("name", Str(<<"a", "c">>)), Entry("status", Str(<<"i", "t">>))>>)
ActiveRecord(id) ==
    ExtractedData(id, <<Entry("name", Str(<<" ", "a", "(", "1">>)),
                        Entry("status", Str(Active)), Entry("n", Num(5))>>)
PaddedRecord(id) ==
    ExtractedData(id, <<Entry("name", Str(<<"a", "t", " ">>)),
                        Entry("status", Str(<<" ">> \o Active \o <<" ">>)),
                        Entry("n", Num(2)), Entry("note", Null)>>)

\* five records, the third unlike the others
BatchOfFive ==
    <<IdleRecord(101), IdleRecord(102), ActiveRecord(103), IdleRecord(104), IdleRecord(105)>>
BatchOfTwo == <<PaddedRecord(201), ActiveRecord(202)>>
BatchWithNull == <<IdleRecord(301), NullRecord>>
BatchActiveFirst == <<ActiveRecord(401), PaddedRecord(402)>>

\* the arrays the callers hold, each handed to processData by reference
CallerBatches ==
    [five |-> BatchOfFive, two |-> BatchOfTwo, withNull |-> BatchWithNull,
     activeFirst |-> BatchActiveFirst]

\* cleaning rule lists
UppercaseThenTrim ==
    <<Rule("status", "transform", Parameters("uppercase", "", "", <<>>, <<>>), <<>>),
      Rule("name", "trim", NoParameters, <<IsActive>>)>>
TrimThenUppercase ==
    <<Rule("status", "trim", NoParameters, <<>>),
      Rule("name", "transform", Parameters("uppercase", "", "", <<>>, <<>>),
           <<IsActive, Condition("n", "gt", Num(3), FALSE)>>)>>
NegatedCondition ==
    <<Rule("name", "normalize", Parameters("", "", "upper", <<>>, <<>>),
           <<Condition("status", "equals", Str(Active), TRUE),
             Condition("name", "startsWith", Str(<<"a">>), FALSE)>>)>>
ReplaceThrows ==
    <<Rule("name", "replace", Parameters("", "", "", <<"(">>, <<"a">>), <<IsActive>>)>>
ConditionThrows ==
    <<Rule("name", "trim", NoParameters,
           <<IsActive, Condition("n", "between", UndefinedValue, FALSE)>>)>>
TrimThenThrows == <<Rule("name", "trim", NoParameters, <<>>)>> \o ConditionThrows
IndexThenInherited ==
    <<Rule("1", "trim", NoParameters, <<>>),
      Rule("constructor", "normalize", Parameters("", "", "upper", <<>>, <<>>),
           <<Condition("toString", "equals", UndefinedValue, TRUE)>>)>>
MissingNames ==
    <<Rule("name", "transform", Parameters("nope", "", "", <<>>, <<>>), <<>>),
      Rule("name", "validate", Parameters("", "nope", "", <<>>, <<>>), <<>>),
      Rule("name", "validate", Parameters("", "phone", "", <<>>, <<>>), <<>>),
      Rule("name", "polish", NoParameters, <<>>)>>

\* validation rule lists
NoValidation == <<>>
RequiredAndShort ==
    <<ValidationRule("required", "", UndefinedValue), ValidationRule("length", "name", Num(3))>>

ProcessInput(batch, cleaningRules, validationRules) ==
    [batch |-> batch, cleaningRules |-> cleaningRules, validationRules |-> validationRules]

\* the arguments the callers pass to processData
ProcessInputs ==
    {ProcessInput("five", ReplaceThrows, NoValidation),
     ProcessInput("five", ConditionThrows, RequiredAndShort),
     ProcessInput("two", UppercaseThenTrim, RequiredAndShort),
     ProcessInput("two", TrimThenUppercase, NoValidation),
     ProcessInput("two", NegatedCondition, NoValidation),
     ProcessInput("two", MissingNames, RequiredAndShort),
     ProcessInput("two", IndexThenInherited, NoValidation),
     ProcessInput("withNull", <<>>, NoValidation)}

\* the data handed to exportData: its length and the length of its JSON text
\* (Undefined: JSON.stringify throws on it)
ExportInputs == {[length |-> 2, json |-> 120], [length |-> 1, json |-> Undefined]}

(* ----------------------- data pipeline: aggregation --------------------- *)
MaxBatch == 3        \* records in one batch handed to an analysis call

\* Number(value) || 0: NaN is falsy
NumberOrZero(value) ==
    LET n == ToNumber(value) IN
    CASE n.t = "nan" -> 0
      [] n.t = "number" -> n.v

\* n / d
Quotient(n, d) == Fraction(n, d)

\* a value is falsy
Falsy(value) ==
    \/ value.t \in {"null", "undefined", "nan"}
    \/ value.t = "number" /\ value.v = 0
    \/ value.t = "string" /\ value.v = <<>>
    \/ value.t = "boolean" /\ ~value.v

\* extractFieldValue for a path without dots: 'key in value' holds for the
\* own and for the inherited properties; null otherwise
extractFieldValue(data, fieldPath) ==
    IF ObjHas(data, fieldPath) THEN ObjGet(data, fieldPath) ELSE Null

AggregationRule(field, operation) == [fields |-> <<field>>, operation |-> operation]

\* values.filter(v => v !== null && v !== undefined)
RECURSIVE filterValues(_)
filterValues(values) ==
    IF values = <<>> THEN <<>>
    ELSE (IF Head(values).t \in {"null", "undefined"} THEN <<>> ELSE <<Head(values)>>)
         \o filterValues(Tail(values))

\* reduce((sum, val) => sum + (Number(val) || 0), 0)
RECURSIVE sumOf(_)
sumOf(values) == IF values = <<>> THEN 0 ELSE NumberOrZero(Head(values)) + sumOf(Tail(values))

\* Math.min / Math.max over Number(v) || 0
minOf(values) ==
    CHOOSE m \in {NumberOrZero(values[i]) : i \in 1..Len(values)} :
        \A i \in 1..Len(values) : m <= NumberOrZero(values[i])
maxOf(values) ==
    CHOOSE m \in {NumberOrZero(values[i]) : i \in 1..Len(values)} :
        \A i \in 1..Len(values) : m >= NumberOrZero(values[i])

\* applyAggregation for sum, average, min, max, count, first and last
applyAggregation(values, operation) ==
    LET filteredValues == filterValues(values)
        n == Len(filteredValues)
    IN
    CASE operation = "sum" -> Num(sumOf(filteredValues))
      [] operation = "average" -> IF n > 0 THEN Quotient(sumOf(filteredValues), n) ELSE Num(0)
      [] operation = "min" -> IF n > 0 THEN Num(minOf(filteredValues)) ELSE Null
      [] operation = "max" -> IF n > 0 THEN Num(maxOf(filteredValues)) ELSE Null
      [] operation = "count" -> Num(n)
      [] operation = "first" ->
             IF n = 0 THEN Null
             ELSE IF Falsy(filteredValues[1]) THEN Null ELSE filteredValues[1]
      [] operation = "last" ->
             IF n = 0 THEN Null
             ELSE IF Falsy(filteredValues[n]) THEN Null ELSE filteredValues[n]

\* the key groupDataForAggregation files a record under
groupKey(record, rules) ==
    IF Len(rules) > 0
    THEN String(extractFieldValue(record.processed, rules[1].fields[1]))
    ELSE <<"d", "e", "f", "a", "u", "l", "t">>

\* variant: every record is filed under the default key
groupDataForAggregationDefault(data, rules) ==
    IF data = <<>> THEN <<>>
    ELSE <<[k |-> <<"d", "e", "f", "a", "u", "l", "t">>, v |-> data]>>

\* groupDataForAggregation: a Map from group key to its records, in insertion order
RECURSIVE groupDataForAggregation(_, _)
groupDataForAggregation(data, rules) ==
    IF data = <<>> THEN <<>>
    ELSE LET record == data[Len(data)]
             groups == groupDataForAggregation(SubSeq(data, 1, Len(data) - 1), rules)
             key == groupKey(record, rules)
         IN EntrySet(groups, key,
                     IF key \in EntryKeys(groups)
                     THEN Append(EntryGet(groups, key), record) ELSE <<record>>)

\* the aggregated object of one group: one key per rule, a later rule on the
\* same field overwrites (a field '__proto__', which the assignment hands to
\* the setter of Object.prototype, is not modelled)
RECURSIVE aggregateGroup(_, _)
aggregateGroup(records, rules) ==
    IF rules = <<>> THEN <<>>
    ELSE LET rule == rules[Len(rules)]
             values == [i \in 1..Len(records) |->
                           extractFieldValue(records[i].processed, rule.fields[1])]
         IN CASE rule.fields[1] # "__proto__" ->
                 ObjSet(aggregateGroup(records, SubSeq(rules, 1, Len(rules) - 1)),
                        rule.fields[1], applyAggregation(values, rule.operation))

\* aggregateData: one AggregatedData per group, ids from uuid on
aggregateData(processedData, aggregationRules, uuid, t) ==
    LET groups == groupDataForAggregation(processedData, aggregationRules) IN
    [g \in 1..Len(groups) |->
        [id |-> uuid + g - 1,
         sourceIds |-> [i \in 1..Len(groups[g].v) |-> groups[g].v[i].id],
         aggregated |-> aggregateGroup(groups[g].v, aggregationRules),
         aggregationRules |-> aggregationRules,
         timestamp |-> t]]

(* ------------------------------ actions --------------------------------- *)
Done(op, id, arg, ret) == [op |-> op, id |-> id, arg |-> arg, ret |-> ret]

\* the constructor: an empty registry with the given limits
Init ==
    /\ now = 0
    /\ ticks = 0
    /\ ops = 0
    /\ maxSessions = MaxSessions
    /\ sessionTimeout \in Timeouts
    /\ nodeEnv \in NodeEnvs
    /\ sessions = EmptyObj
    /\ nextId = 1
    /\ born = EmptyObj
    /\ emitted = <<>>
    /\ last = Done("constructor", 0, 0, "ok")
    /\ eventSubscriptions = EmptyObj
    /\ nextSub = 1
    /\ stopping = 0
    /\ calls = <<>>
    /\ processingQueue = EmptyObj
    /\ exportJobs = EmptyObj
    /\ runs = EmptyObj
    /\ exporting = EmptyObj
    /\ microtasks = <<>>
    /\ nextUuid = 1
    /\ rawBatches = CallerBatches
    /\ returned = [op |-> "none"]
    /\ browserSessions = <<>>
    /\ launching = EmptyObj
    /\ closing = EmptyObj
    /\ nextBrowser = 1

\* the wall clock advances, between two handlers and at an await
Tick(d) ==
    /\ ticks < MaxTicks
    /\ now' = now + d
    /\ ticks' = ticks + 1
    /\ emitted' = <<>>
    /\ last' = Done("tick", 0, d, "ok")
    /\ UNCHANGED <<ops, maxSessions, sessionTimeout, nodeEnv, sessions, nextId, born, evars, pvars,
                   returned, bvars>>

\* one more handler call by a caller
Call ==
    /\ ops < MaxOps
    /\ UNCHANGED <<now, ticks, maxSessions, sessionTimeout, nodeEnv, pvars, returned, bvars>>

\* the operation returns: the registry is as its callbacks have left it
Returns(reg) ==
    /\ sessions' = reg.sessions
    /\ eventSubscriptions' = reg.eventSubscriptions
    /\ nextSub' = reg.nextSub
    /\ calls' = reg.calls
    /\ ops' = reg.ops
    /\ emitted' = reg.emitted
    /\ UNCHANGED stopping

\* the session map is stored and the events of the operation reach the
\* subscribers before it returns
Emit(ss, events) ==
    Returns(emitEvents(Registry(ss, eventSubscriptions, nextSub, calls, ops + 1, <<>>),
                       events, ops + 1, now))

CreateSession(config) ==
    /\ Call
    /\ LET r == createSession(sessions, nextId, config, now, maxSessions, sessionTimeout, nodeEnv) IN
       /\ Emit(r.sessions, r.events)
       /\ last' = Done("createSession", IF r.ret = "ok" THEN nextId ELSE 0, config, r.ret)
       /\ nextId' = IF r.ret = "ok" THEN nextId + 1 ELSE nextId
       /\ born' = IF r.ret = "ok" THEN MapSet(born, nextId, now) ELSE born

GetSession(id) ==
    /\ Call
    /\ LET g == getSession(sessions, id, now) IN
       /\ Emit(g.sessions, <<>>)
       /\ last' = Done("getSession", id, 0, IF g.found THEN "session" ELSE "undefined")
    /\ UNCHANGED <<nextId, born>>

\* a handler that leaves an Outcome
Apply(r, op, id, arg) ==
    /\ Call
    /\ Emit(r.sessions, r.events)
    /\ last' = Done(op, id, arg, r.ret)
    /\ UNCHANGED <<nextId, born>>

UpdateSessionConfig(id, config) ==
    Apply(updateSessionConfig(sessions, id, config, now), "updateSessionConfig", id, config)

UpdateProgress(id, updates) ==
    Apply(updateProgress(sessions, id, updates, now), "updateProgress", id, updates)

SetSessionStatus(id, status) ==
    Apply(setSessionStatus(sessions, id, status, now), "setSessionStatus", id, status)

AddExtractedData(id, data) ==
    Apply(addExtractedData(sessions, id, data, now), "addExtractedData", id, data)

RecordError(id, fatal) ==
    Apply(recordError(sessions, id, fatal, now), "recordError", id, fatal)

ExpireSession(id) ==
    Apply(Outcome(expireSession(sessions, id, now), "ok", <<>>), "expireSession", id, 0)

DeleteSession(id) ==
    Apply(Outcome(deleteSession(sessions, id), "ok", <<>>), "deleteSession", id, 0)

\* cleanup(), called by the interval timer or directly
Cleanup ==
    Apply(Outcome(cleanup(sessions, now), "ok", <<>>), "cleanup", 0,
          expiredSessions(sessions, now))

\* shutdown() up to its await: the interval timer is cleared and cleanup() runs
Shutdown ==
    /\ ops < MaxOps
    /\ ops' = ops + 1
    /\ sessions' = cleanup(sessions, now)
    /\ stopping' = stopping + 1
    /\ emitted' = <<>>
    /\ last' = Done("shutdown", 0, expiredSessions(sessions, now), "pending")
    /\ UNCHANGED <<now, ticks, maxSessions, sessionTimeout, nodeEnv, nextId, born,
                   eventSubscriptions, nextSub, calls, pvars, returned, bvars>>

\* shutdown() after its await: this.eventSubscriptions.clear()
ShutdownResumes ==
    /\ stopping > 0
    /\ stopping' = stopping - 1
    /\ eventSubscriptions' = EmptyObj
    /\ emitted' = <<>>
    /\ last' = Done("shutdownResumes", 0, 0, "ok")
    /\ UNCHANGED <<now, ticks, ops, maxSessions, sessionTimeout, nodeEnv, sessions, nextId, born,
                   nextSub, calls, pvars, returned, bvars>>

\* subscribe(sessionId, eventTypes, callback)
Subscribe(in) ==
    /\ nextSub <= MaxSubs
    /\ eventSubscriptions' = subscribe(eventSubscriptions, nextSub, in.sessionId,
                                       in.eventTypes, in.callback, now)
    /\ nextSub' = nextSub + 1
    /\ emitted' = <<>>
    /\ last' = Done("subscribe", nextSub, in, "ok")
    /\ UNCHANGED <<now, ticks, ops, maxSessions, sessionTimeout, nodeEnv, sessions, nextId, born,
                   stopping, calls, pvars, returned, bvars>>

\* unsubscribe(subscriptionId)
Unsubscribe(sid) ==
    /\ sid \in DOMAIN eventSubscriptions
    /\ eventSubscriptions' = unsubscribe(eventSubscriptions, sid)
    /\ emitted' = <<>>
    /\ last' = Done("unsubscribe", sid, 0, "ok")
    /\ UNCHANGED <<now, ticks, ops, maxSessions, sessionTimeout, nodeEnv, sessions, nextId, born,
                   nextSub, stopping, calls, pvars, returned, bvars>>

Next ==
    \/ \E d \in {1, sessionTimeout, RetentionMs} : Tick(d)
    \/ \E c \in CreateConfigs : CreateSession(c)
    \/ \E id \in Ids : GetSession(id)
    \/ \E id \in Ids, c \in ConfigInputs : UpdateSessionConfig(id, c)
    \/ \E id \in Ids, u \in ProgressInputs : UpdateProgress(id, u)
    \/ \E id \in Ids, st \in Statuses : SetSessionStatus(id, st)
    \/ \E id \in Ids, d \in Data : AddExtractedData(id, d)
    \/ \E id \in Ids, f \in BOOLEAN : RecordError(id, f)
    \/ \E id \in Ids : ExpireSession(id)
    \/ \E id \in Ids : DeleteSession(id)
    \/ Cleanup

Spec == Init /\ [][Next]_vars

\* the registry with subscribers: the operations that emit, and the subscriptions
NextEvents ==
    \/ \E in \in SubscribeInputs : Subscribe(in)
    \/ \E sid \in DOMAIN eventSubscriptions : Unsubscribe(sid)
    \/ \E c \in CreateConfigs : CreateSession(c)
    \/ \E id \in Ids : SetSessionStatus(id, "running")
    \/ \E id \in Ids : AddExtractedData(id, "d1")
    \/ \E id \in Ids : DeleteSession(id)
    \/ Shutdown
    \/ ShutdownResumes

SpecEvents == Init /\ [][NextEvents]_vars

(* ----------------------- data pipeline: actions ------------------------- *)
\* what a pipeline call leaves alone
PipelineFrame ==
    /\ emitted' = <<>>
    /\ UNCHANGED <<now, ticks, maxSessions, sessionTimeout, nodeEnv, sessions, nextId, born, evars,
                   returned, bvars>>

\* a performExport call stands between its assignments and JSON.stringify:
\* no other code runs before it has ended
MidExport == \E id \in DOMAIN exporting : exporting[id].at = "stringify"

\* a processData call has not settled yet
Pending(id) == id \in DOMAIN runs /\ runs[id].promise = "pending"

\* a processData call stops, at an await or at its end: its job, its locals
\* and the array it was handed are as it left them, and a suspended call
\* joins the microtask queue
Stops(id, queue, call) ==
    /\ processingQueue' = MapSet(processingQueue, id, call.job)
    /\ runs' = MapSet(runs, id, call.run)
    /\ rawBatches' = [rawBatches EXCEPT ![call.run.batch] = call.run.rawData]
    /\ nextUuid' = call.uuid
    /\ microtasks' = IF call.run.promise = "pending" THEN Append(queue, id) ELSE queue

\* processData(sessionId, rawData, cleaningRules, validationRules) up to its
\* first await, or to its end when no rule fires: the job is registered as
\* running and the record loop entered
ProcessData(input) ==
    /\ ops < MaxJobs
    /\ ~MidExport
    /\ ops' = ops + 1
    /\ Stops(nextUuid, microtasks,
             processData(ProcessDataCall(ProcessingJob(nextUuid, rawBatches[input.batch], now),
                                         Run(input, rawBatches[input.batch]), nextUuid + 1),
                         now))
    /\ last' = Done("processData", nextUuid, 0, runs'[nextUuid].promise)
    /\ UNCHANGED <<exportJobs, exporting>>
    /\ PipelineFrame

\* a suspended call where it resumes: its array is the caller's, as it is now
Resumed(run) == [run EXCEPT !.rawData = rawBatches[run.batch]]

\* the processData call at the head of the microtask queue resumes after its
\* await and runs to its next await or to its end
ProcessDataResumes ==
    /\ microtasks # <<>>
    /\ ~MidExport
    /\ LET id == Head(microtasks) IN
       /\ Stops(id, Tail(microtasks),
                processData(ProcessDataCall(processingQueue[id], applied(Resumed(runs[id])),
                                            nextUuid), now))
       /\ last' = Done("processDataResumes", id, runs[id].i + 1, runs'[id].promise)
    /\ UNCHANGED <<ops, exportJobs, exporting>>
    /\ PipelineFrame

\* exportData: the job is stored, performExport started, the job returned
ExportData(data) ==
    /\ ops < MaxJobs
    /\ ~MidExport
    /\ ops' = ops + 1
    /\ exportJobs' = MapSet(exportJobs, nextUuid, ExportJob(nextUuid, data, now))
    /\ exporting' = MapSet(exporting, nextUuid, [data |-> data, at |-> "timer"])
    /\ nextUuid' = nextUuid + 1
    /\ last' = Done("exportData", nextUuid, data, "job")
    /\ UNCHANGED <<processingQueue, runs, microtasks, rawBatches>>
    /\ PipelineFrame

\* performExport resumes when its timer has fired, a timer callback runs
\* when no microtask is left: the job is marked completed
PerformExportResumes(id) ==
    /\ id \in DOMAIN exporting
    /\ exporting[id].at = "timer"
    /\ microtasks = <<>>
    /\ ~MidExport
    /\ now >= exportJobs[id].started + ExportDelayMs
    /\ exportJobs' = [exportJobs EXCEPT ![id] = performExportResumes(@, now)]
    /\ exporting' = [exporting EXCEPT ![id].at = "stringify"]
    /\ last' = Done("performExportResumes", id, exporting[id].data, "pending")
    /\ UNCHANGED <<ops, processingQueue, runs, microtasks, nextUuid, rawBatches>>
    /\ PipelineFrame

\* performExport goes on in the same block: the size is stored, or the
\* catch marks the job failed, and the call ends
PerformExportEnds(id) ==
    /\ id \in DOMAIN exporting
    /\ exporting[id].at = "stringify"
    /\ exportJobs' = [exportJobs EXCEPT ![id] = performExportEnds(@, exporting[id].data, now)]
    /\ exporting' = MapDelete(exporting, id)
    /\ last' = Done("performExport", id, exporting[id].data, "void")
    /\ UNCHANGED <<ops, processingQueue, runs, microtasks, nextUuid, rawBatches>>
    /\ PipelineFrame

\* cleanupJobs(), called by whoever holds the pipeline
CleanupJobs ==
    /\ ~MidExport
    /\ processingQueue' = cleanupProcessingJobs(processingQueue, now)
    /\ exportJobs' = cleanupExportJobs(exportJobs, now)
    /\ last' = Done("cleanupJobs", 0, 0, "void")
    /\ UNCHANGED <<ops, runs, exporting, microtasks, nextUuid, rawBatches>>
    /\ PipelineFrame

\* the pipeline alone: no sessions, the default timeout
InitPipeline == Init /\ sessionTimeout = DefaultSessionTimeout /\ nodeEnv = ""

\* the arguments of the processData calls whose jobs are followed over time
JobInputs ==
    {ProcessInput("two", ConditionThrows, NoValidation),
     ProcessInput("activeFirst", TrimThenThrows, NoValidation),
     ProcessInput("withNull", <<>>, NoValidation)}

\* record cleaning alone: processData calls at any time
NextProcessing ==
    \/ Tick(1)
    \/ \E input \in ProcessInputs : ProcessData(input)
    \/ ProcessDataResumes

SpecProcessing == InitPipeline /\ [][NextProcessing]_vars

\* the steps the pipeline takes by itself and the calls that submit work
NextUnattended ==
    \/ ~MidExport /\ \E d \in {ExportDelayMs, MaxAgeMs, LongSessionTimeout} : Tick(d)
    \/ \E input \in JobInputs : ProcessData(input)
    \/ ProcessDataResumes
    \/ \E data \in ExportInputs : ExportData(data)
    \/ \E id \in DOMAIN exporting : PerformExportResumes(id)
    \/ \E id \in DOMAIN exporting : PerformExportEnds(id)

\* the jobs of the pipeline over time, cleanupJobs called at any moment
NextPipeline ==
    \/ NextUnattended
    \/ CleanupJobs

SpecPipeline == InitPipeline /\ [][NextPipeline]_vars

\* no processData call is suspended at an await
LoopsEnd == microtasks = <<>>

\* the pipeline when nobody calls cleanupJobs: a timer that is due fires, a
\* promise chain runs to its end
SpecUnattended ==
    /\ InitPipeline
    /\ [][NextUnattended]_vars
    /\ WF_vars(\E id \in DOMAIN exporting : PerformExportResumes(id))
    /\ WF_vars(\E id \in DOMAIN exporting : PerformExportEnds(id))
    /\ []<>LoopsEnd

(* ============================== claims ================================= *)
\* the session id is in the map and its deadline has not passed
Live(id) == id \in DOMAIN sessions /\ now <= sessions[id].expires_at

\* the session id is in the map and its deadline has passed
PastDeadline(id) == id \in DOMAIN sessions /\ now > sessions[id].expires_at

Terminal == {"completed", "failed"}

(* C1: every getSession(id) made at a time later than created_at + T      *)
(* returns undefined, whatever was done to the session before.            *)
C1_GetAfterDeadlineIsUndefined ==
    (/\ last.op = "getSession"
     /\ last.id \in DOMAIN born
     /\ now > born[last.id] + sessionTimeout)
    => last.ret = "undefined"

\* a session that saw activity and was then read after its deadline
C1_Witness ==
    /\ last.op = "getSession"
    /\ last.id \in DOMAIN sessions
    /\ now > born[last.id] + sessionTimeout
    /\ sessions[last.id].progress.lastUpdate > sessions[last.id].created_at
    /\ last.ret = "undefined"

(* C2: with exactly maxSessions sessions in the registry, createSession    *)
(* fails with a capacity error, adds no session and emits no event.        *)
C2_CapacityRejects ==
    [][(/\ last'.op = "createSession"
        /\ Cardinality(DOMAIN sessions) = maxSessions)
       => (/\ last'.ret = "capacity"
           /\ sessions' = sessions
           /\ Cardinality(DOMAIN sessions') = maxSessions
           /\ emitted' = <<>>)]_vars

\* a rejected createSession on a full registry
C2_Witness ==
    /\ last.op = "createSession"
    /\ last.ret = "capacity"
    /\ Cardinality(DOMAIN sessions) = maxSessions
    /\ emitted = <<>>

(* C3: createSession fails with a capacity error exactly when the number   *)
(* of live sessions (deadline not passed) has reached maxSessions; entries *)
(* past their deadline and not yet swept do not count.                     *)
C3_CapacityCountsLiveOnly ==
    [][last'.op = "createSession"
       => (last'.ret = "capacity"
           <=> Cardinality({id \in DOMAIN sessions : Live(id)}) >= maxSessions)]_vars

(* C4: every change of a session's status made by setSessionStatus,        *)
(* updateSessionConfig, updateProgress, addExtractedData, recordError or   *)
(* getSession follows an edge of created -> configuring -> running <->     *)
(* paused -> completed | failed, or the edge into expired.                 *)
LifecycleEdges ==
    {<<"created", "configuring">>, <<"configuring", "running">>,
     <<"running", "paused">>, <<"paused", "running">>,
     <<"running", "completed">>, <<"running", "failed">>,
     <<"paused", "completed">>, <<"paused", "failed">>}

C4_StatusFollowsLifecycle ==
    [][last'.op \in {"setSessionStatus", "updateSessionConfig", "updateProgress",
                     "addExtractedData", "recordError", "getSession"}
       => \A id \in (DOMAIN sessions) \cap (DOMAIN sessions') :
            \/ sessions'[id].status = sessions[id].status
            \/ sessions'[id].status = "expired"
            \/ <<sessions[id].status, sessions'[id].status>> \in LifecycleEdges]_vars

(* C5: updateSessionConfig, updateProgress and setSessionStatus on an id   *)
(* that is unknown or past its deadline fail with not-found, leave the     *)
(* session's configuration, progress, raw buffer and metadata unchanged    *)
(* and emit no event.                                                      *)
C5_NotFoundLeavesSession ==
    [][(/\ last'.op \in {"updateSessionConfig", "updateProgress", "setSessionStatus"}
        /\ ~Live(last'.id))
       => (/\ last'.ret = "notFound"
           /\ emitted' = <<>>
           /\ DOMAIN sessions' = DOMAIN sessions
           /\ \A id \in DOMAIN sessions :
                /\ sessions'[id].configuration = sessions[id].configuration
                /\ sessions'[id].progress = sessions[id].progress
                /\ sessions'[id].data = sessions[id].data
                /\ sessions'[id].metadata = sessions[id].metadata)]_vars

\* an update refused because the session is past its deadline
C5_Witness ==
    /\ last.op = "updateProgress"
    /\ last.ret = "notFound"
    /\ PastDeadline(last.id)
    /\ sessions[last.id].status = "expired"
    /\ sessions[last.id].progress.pagesProcessed = 0

(* C6: getSession on a session past its deadline sets its status to        *)
(* expired and keeps the entry; getSession never changes the set of        *)
(* entries, and only cleanup and deleteSession ever remove one.            *)
C6_LazyExpiryKeepsEntry ==
    [][/\ (last'.op = "getSession" /\ PastDeadline(last'.id))
          => (/\ last'.ret = "undefined"
              /\ last'.id \in DOMAIN sessions'
              /\ sessions'[last'.id].status = "expired")
       /\ last'.op = "getSession"
          => Cardinality(DOMAIN sessions') = Cardinality(DOMAIN sessions)
       /\ (DOMAIN sessions) \ (DOMAIN sessions') # {}
          => last'.op \in {"cleanup", "deleteSession"}]_vars

\* a read that marked a session expired and kept it in the map
C6_Witness ==
    /\ last.op = "getSession"
    /\ last.ret = "undefined"
    /\ PastDeadline(last.id)
    /\ sessions[last.id].status = "expired"
    /\ sessions[last.id].updated_at = now

(* C7: expires_at = created_at + sessionTimeout from creation on, and no   *)
(* registry operation changes expires_at or created_at afterwards.         *)
C7_DeadlineFixedAtCreation ==
    \A id \in DOMAIN sessions :
        /\ sessions[id].created_at = born[id]
        /\ sessions[id].expires_at = born[id] + sessionTimeout

\* a session that was written to at a later time than its creation
C7_Witness ==
    \E id \in DOMAIN sessions :
        /\ sessions[id].updated_at > sessions[id].created_at
        /\ sessions[id].progress.errorsEncountered > 0
        /\ sessions[id].expires_at = sessions[id].created_at + sessionTimeout

(* C8: cleanup removes exactly the sessions past their deadline or         *)
(* completed/failed with updated_at more than 24 hours in the past; every  *)
(* other session stays, with all its fields unchanged.                     *)
C8_CleanupRemovesExactly ==
    [][last'.op = "cleanup"
       => (/\ DOMAIN sessions' =
                {id \in DOMAIN sessions :
                    ~(\/ now > sessions[id].expires_at
                      \/ /\ sessions[id].status \in Terminal
                         /\ now - sessions[id].updated_at > 24 * 60 * 60 * 1000)}
           /\ \A id \in DOMAIN sessions' : sessions'[id] = sessions[id])]_vars

\* a sweep that removed one session and kept another
C8_Witness ==
    /\ last.op = "cleanup"
    /\ last.arg # {}
    /\ DOMAIN sessions # {}
    /\ (DOMAIN sessions) \cap last.arg = {}

(* C9: setSessionStatus(id, s) on a live session with s completed or       *)
(* failed sets endTime to the current time, duration to endTime -          *)
(* startTime and updated_at to the current time; with any other status it  *)
(* leaves endTime and duration unchanged.                                  *)
C9_TerminalStatusStampsEnd ==
    [][(last'.op = "setSessionStatus" /\ Live(last'.id))
       => LET id == last'.id
              before == sessions[id]
              after == sessions'[id]
          IN /\ last'.ret = "ok"
             /\ after.status = last'.arg
             /\ after.updated_at = now
             /\ IF last'.arg \in Terminal
                THEN /\ after.metadata.endTime = now
                     /\ after.metadata.duration =
                            after.metadata.endTime - before.metadata.startTime
                ELSE /\ after.metadata.endTime = before.metadata.endTime
                     /\ after.metadata.duration = before.metadata.duration]_vars

\* a session set to failed some time after it started
C9_Witness ==
    /\ last.op = "setSessionStatus"
    /\ last.ret = "ok"
    /\ last.arg = "failed"
    /\ sessions[last.id].metadata.endTime = now
    /\ sessions[last.id].metadata.duration > 0

(* C10: addExtractedData on a live session appends exactly one record to   *)
(* the end of the raw buffer and adds one to dataPointsExtracted; status,  *)
(* configuration, cleanedData and aggregatedData stay as they were.        *)
C10_AddExtractedDataAppends ==
    [][(last'.op = "addExtractedData" /\ Live(last'.id))
       => LET id == last'.id
              before == sessions[id]
              after == sessions'[id]
          IN /\ last'.ret = "ok"
             /\ after.data.rawData = Append(before.data.rawData, last'.arg)
             /\ after.progress.dataPointsExtracted =
                    before.progress.dataPointsExtracted + 1
             /\ after.status = before.status
             /\ after.configuration = before.configuration
             /\ after.data.cleanedData = before.data.cleanedData
             /\ after.data.aggregatedData = before.data.aggregatedData
             /\ \A other \in (DOMAIN sessions) \ {id} :
                    sessions'[other] = sessions[other]]_vars

\* a second, different record appended behind the first
C10_Witness ==
    /\ last.op = "addExtractedData"
    /\ last.ret = "ok"
    /\ Len(sessions[last.id].data.rawData) = 2
    /\ sessions[last.id].data.rawData[1] # sessions[last.id].data.rawData[2]
    /\ sessions[last.id].data.rawData[2] = last.arg
    /\ sessions[last.id].progress.dataPointsExtracted = 2

(* ------------------------ data pipeline: analysis ------------------------ *)
\* a processed record as processData leaves it, without cleaning rules
Sample(id, processed) ==
    ProcessedData(id, ExtractedData(id, processed), processed, <<>>,
                  assessDataQuality(processed, NoValidation).v, 0)

\* every batch of at most MaxBatch records over the given field maps; the
\* ids are the positions
Batches(maps) ==
    {[i \in 1..Len(b) |-> Sample(i, b[i])] :
        b \in UNION {[1..n -> maps] : n \in 0..MaxBatch}}

\* field maps with a number, the same number as text, or no x at all
X(value) == <<Entry("x", value)>>
AggregationMaps ==
    {X(Num(1)), X(Num(2)), X(Num(3)), X(Str(<<"1">>)), <<Entry("y", Num(2))>>}

AggregationRuleLists ==
    {<<>>,
     <<AggregationRule("x", "sum")>>,
     <<AggregationRule("x", "average")>>,
     <<AggregationRule("x", "count")>>,
     <<AggregationRule("x", "max")>>,
     <<AggregationRule("y", "first"), AggregationRule("x", "min")>>}

\* aggregateData(processedData, aggregationRules): it has no await, so it
\* runs to its return in one step; one call is followed per behaviour
AggregateData(data, rules) ==
    /\ returned.op = "none"
    /\ LET rows == aggregateData(data, rules, nextUuid, now) IN
       /\ returned' = [op |-> "aggregateData", data |-> data, rules |-> rules,
                       result |-> rows]
       /\ nextUuid' = nextUuid + Len(rows)
    /\ last' = Done("aggregateData", 0, 0, "ok")
    /\ emitted' = <<>>
    /\ UNCHANGED <<now, ticks, ops, maxSessions, sessionTimeout, nodeEnv, sessions, nextId, born,
                   evars, processingQueue, exportJobs, runs, exporting, microtasks, rawBatches,
                   bvars>>

\* a nested plain object
Obj(entries) == [t |-> "object", v |-> entries]

\* a date and time in the ISO form YYYY-MM-DDTHH:mm, day 01 to 28
IsoDateTime(s) ==
    /\ Len(s) = 16
    /\ \A i \in {1, 2, 3, 4, 6, 7, 9, 10, 12, 13, 15, 16} : s[i] \in Range(Digits)
    /\ s[5] = "-" /\ s[8] = "-" /\ s[11] = "T" /\ s[14] = ":"
    /\ parseDigits(SubSeq(s, 6, 7), 0) \in 1..12
    /\ parseDigits(SubSeq(s, 9, 10), 0) \in 1..28
    /\ parseDigits(SubSeq(s, 12, 13), 0) \in 0..23
    /\ parseDigits(SubSeq(s, 15, 16), 0) \in 0..59

\* !isNaN(Date.parse(s)) for an ISO date and time, and for text without digits
DateParses(s) ==
    CASE IsoDateTime(s) -> TRUE
      [] \A i \in 1..Len(s) : s[i] \notin Range(Digits) -> FALSE

\* /^https?:\/\//
IsUrlText(s) ==
    \/ startsWith(s, <<"h", "t", "t", "p", ":", "/", "/">>)
    \/ startsWith(s, <<"h", "t", "t", "p", "s", ":", "/", "/">>)

inferFieldType(value) ==
    IF value.t \in {"null", "undefined"} THEN "string"
    ELSE IF value.t = "boolean" THEN "boolean"
    ELSE IF IsNumber(value) THEN "number"
    ELSE IF value.t = "array" THEN "array"
    ELSE IF value.t = "object" THEN "object"
    ELSE IF value.t # "string" THEN "string"
    ELSE IF validator("email", value) THEN "email"
    ELSE IF IsUrlText(value.v) THEN "url"
    ELSE IF validator("phone", value) THEN "phone"
    ELSE IF DateParses(value.v) THEN "date"
    ELSE "string"

\* the specificity order of isMoreSpecificType
Specificity ==
    <<"string", "date", "phone", "email", "url", "number", "boolean", "array", "object">>

\* variant: any other type replaces the current one
isMoreSpecificTypeLast(newType, currentType) == newType # currentType

isMoreSpecificType(newType, currentType) ==
    CharIndex(Specificity, newType) > CharIndex(Specificity, currentType)

\* the body of the inner loop of inferDataSchema, on one entry of a record
scanField(fieldMap, entry) ==
    LET currentType == inferFieldType(entry.v)
        known == IF entry.k \in EntryKeys(fieldMap) THEN fieldMap
                 ELSE EntrySet(fieldMap, entry.k,
                               [name |-> entry.k, type |-> currentType, required |-> FALSE])
        field == EntryGet(known, entry.k)
    IN IF isMoreSpecificType(currentType, field.type)
       THEN EntrySet(known, entry.k, [field EXCEPT !.type = currentType])
       ELSE known

RECURSIVE scanFields(_, _)
scanFields(fieldMap, entries) ==
    IF entries = <<>> THEN fieldMap
    ELSE scanFields(scanField(fieldMap, Head(entries)), Tail(entries))

\* the first loop of inferDataSchema: the field map after the given records
RECURSIVE scanRecords(_)
scanRecords(data) ==
    IF data = <<>> THEN <<>>
    ELSE scanFields(scanRecords(SubSeq(data, 1, Len(data) - 1)), data[Len(data)].processed)

\* the records in which the field, own or inherited, is neither null,
\* undefined nor ''
presence(data, name) ==
    Cardinality({i \in 1..Len(data) : NonEmpty(ObjGet(data[i].processed, name))})

\* inferDataSchema: required means present in more than 90% of the records
inferDataSchema(data) ==
    LET fieldMap == scanRecords(data) IN
    [version |-> "1.0.0",
     fields |-> [i \in 1..Len(fieldMap) |->
                    [fieldMap[i].v EXCEPT
                        !.required = 10 * presence(data, fieldMap[i].k) > 9 * Len(data)]]]

\* sorted[Math.floor(sorted.length / 2)], the index counted from 0
median(sorted) == sorted[(Len(sorted) \div 2) + 1]

\* the comparator (a, b) => a - b as sort reads it, on the numbers the two
\* values convert to: the sign of the difference, 0 when it is NaN
sign(x, y) == IF Less(x, y) THEN 0 - 1 ELSE IF Less(y, x) THEN 1 ELSE 0
compare(a, b) == sign(ToNumber(a), ToNumber(b))

\* the length of the run the array starts with, k elements of it seen: a
\* strictly descending run, or one that never descends
RECURSIVE runLength(_, _, _)
runLength(array, descending, k) ==
    IF k = Len(array) THEN k
    ELSE IF descending = (compare(array[k + 1], array[k]) < 0)
    THEN runLength(array, descending, k + 1)
    ELSE k

Reverse(array) == [i \in 1..Len(array) |-> array[Len(array) + 1 - i]]

\* the first run in ascending order: a descending run is reversed
makeRun(array, descending, run) ==
    IF descending
    THEN Reverse(SubSeq(array, 1, run)) \o SubSeq(array, run + 1, Len(array))
    ELSE array

\* the binary search of the insertion sort, left and right counted from 0:
\* the pivot goes after the elements it is not smaller than
RECURSIVE insertionPoint(_, _, _, _)
insertionPoint(array, pivot, left, right) ==
    IF left >= right THEN left
    ELSE IF compare(pivot, array[left + ((right - left) \div 2) + 1]) < 0
    THEN insertionPoint(array, pivot, left, left + ((right - left) \div 2))
    ELSE insertionPoint(array, pivot, left + ((right - left) \div 2) + 1, right)

\* the binary insertion sort of the elements from position start (counted
\* from 0) on, the elements before it being a run
RECURSIVE binaryInsertionSort(_, _)
binaryInsertionSort(array, start) ==
    IF start >= Len(array) THEN array
    ELSE binaryInsertionSort(
             InsertAfter(SubSeq(array, 1, start) \o SubSeq(array, start + 2, Len(array)),
                         insertionPoint(array, array[start + 1], 0, start),
                         array[start + 1]),
             start + 1)

\* values.sort((a, b) => a - b) as V8 sorts an array of fewer than 64
\* elements, none undefined: the first run is found and the rest inserted
\* into it; with a comparator that is no order (NaN among the differences)
\* the result depends on these steps
sort(values) ==
    IF Len(values) < 2 THEN values
    ELSE CASE Len(values) < 64 ->
             binaryInsertionSort(
                 makeRun(values, compare(values[2], values[1]) < 0,
                         runLength(values, compare(values[2], values[1]) < 0, 2)),
                 runLength(values, compare(values[2], values[1]) < 0, 2))

\* x + y and x / n on numbers
Plus(x, y) ==
    IF x.t = "nan" \/ y.t = "nan" THEN NaN
    ELSE Fraction(Numerator(x) * Denominator(y) + Numerator(y) * Denominator(x),
                  Denominator(x) * Denominator(y))
Over(x, n) == IF x.t = "nan" THEN NaN ELSE Fraction(Numerator(x), Denominator(x) * n)

\* the numbers the values convert to
Numbers(values) == [i \in 1..Len(values) |-> ToNumber(values[i])]

RECURSIVE sumOfNumbers(_)
sumOfNumbers(numbers) ==
    IF numbers = <<>> THEN Num(0) ELSE Plus(Head(numbers), sumOfNumbers(Tail(numbers)))

\* Math.min(...values) and Math.max(...values), on the numbers the values
\* convert to: NaN when one of them is NaN
mathMin(numbers) ==
    IF \E i \in 1..Len(numbers) : numbers[i].t = "nan" THEN NaN
    ELSE numbers[CHOOSE i \in 1..Len(numbers) :
                     \A j \in 1..Len(numbers) : LessEq(numbers[i], numbers[j])]
mathMax(numbers) ==
    IF \E i \in 1..Len(numbers) : numbers[i].t = "nan" THEN NaN
    ELSE numbers[CHOOSE i \in 1..Len(numbers) :
                     \A j \in 1..Len(numbers) : LessEq(numbers[j], numbers[i])]

\* values.reduce((a, b) => a + b, 0) / values.length: the sum of numbers and
\* booleans is a number; a function among the values turns the sum into a
\* text that is no number (sums with strings, arrays and objects are not
\* modelled)
mean(values) ==
    IF \E i \in 1..Len(values) : values[i].t = "function" THEN NaN
    ELSE CASE \A i \in 1..Len(values) : IsNumber(values[i]) \/ values[i].t = "boolean" ->
             Over(sumOfNumbers(Numbers(values)), Len(values))

\* the FieldStatistics of the sorted values (standardDeviation, a square
\* root, is left out)
FieldStatistics(sorted) ==
    [empty |-> FALSE, min |-> mathMin(Numbers(sorted)), max |-> mathMax(Numbers(sorted)),
     avg |-> mean(sorted), median |-> median(sorted)]

\* calculateNumericStatistics: sort works in place, so the values are
\* sorted when the sum, the minimum and the maximum are taken
calculateNumericStatistics(values) ==
    IF values = <<>> THEN [empty |-> TRUE] ELSE FieldStatistics(sort(values))

\* the body of the field loop of generateDataStatistics, on one entry
countField(fieldMap, entry) ==
    LET known == IF entry.k \in EntryKeys(fieldMap) THEN fieldMap
                 ELSE EntrySet(fieldMap, entry.k,
                               [name |-> entry.k, type |-> inferFieldType(entry.v),
                                count |-> 0, nullCount |-> 0, sampleValues |-> <<>>])
        fieldInfo == EntryGet(known, entry.k)
    IN EntrySet(known, entry.k,
              [fieldInfo EXCEPT
                  !.count = @ + 1,
                  !.nullCount = IF NonEmpty(entry.v) THEN @ ELSE @ + 1,
                  !.sampleValues = IF NonEmpty(entry.v) /\ Len(@) < 10
                                   THEN Append(@, entry.v) ELSE @])

RECURSIVE countFields(_, _)
countFields(fieldMap, entries) ==
    IF entries = <<>> THEN fieldMap
    ELSE countFields(countField(fieldMap, Head(entries)), Tail(entries))

RECURSIVE countRecords(_)
countRecords(data) ==
    IF data = <<>> THEN <<>>
    ELSE countFields(countRecords(SubSeq(data, 1, Len(data) - 1)), data[Len(data)].processed)

\* the statistics of the numeric fields: field name -> FieldStatistics
fieldStatistics(data, fieldMap) ==
    [name \in {fieldMap[i].k : i \in {j \in 1..Len(fieldMap) : fieldMap[j].v.type = "number"}} |->
        calculateNumericStatistics(
            filterValues([i \in 1..Len(data) |-> ObjGet(data[i].processed, name)]))]

RECURSIVE sumOfCounts(_, _)
sumOfCounts(fieldMap, nulls) ==
    IF fieldMap = <<>> THEN 0
    ELSE (IF nulls THEN Head(fieldMap).v.nullCount ELSE Head(fieldMap).v.count)
         + sumOfCounts(Tail(fieldMap), nulls)

\* JSON.stringify(processed) for a record of primitive values: the entries in
\* order, without those whose value is undefined or a function, NaN as null
stringify(processed) ==
    LET kept == SelectSeq(processed, LAMBDA e : e.v.t \notin {"undefined", "function"}) IN
    [i \in 1..Len(kept) |-> IF kept[i].v.t = "nan" THEN [kept[i] EXCEPT !.v = Null]
                             ELSE kept[i]]

\* generateDataStatistics: the counts and ratios it returns (qualityScore and
\* dataSize are left out) and the local field map with its statistics
generateDataStatistics(data) ==
    IF data = <<>>
    THEN [stats |-> [recordCount |-> 0, fieldCount |-> 0, duplicateRecords |-> 0,
                     completenessRatio |-> Ratio(0, 1)],
          fieldMap |-> <<>>, statistics |-> EmptyObj]
    ELSE LET fieldMap == countRecords(data)
             totalFields == sumOfCounts(fieldMap, FALSE)
             nullFields == sumOfCounts(fieldMap, TRUE)
         IN [stats |-> [recordCount |-> Len(data), fieldCount |-> Len(fieldMap),
                        duplicateRecords |->
                            Len(data) - Cardinality({stringify(data[i].processed) :
                                                         i \in 1..Len(data)}),
                        completenessRatio |->
                            IF totalFields > 0 THEN Ratio(totalFields - nullFields, totalFields)
                            ELSE Ratio(0, 1)],
             fieldMap |-> fieldMap,
             statistics |-> fieldStatistics(data, fieldMap)]

\* field maps of one field f of every type, one with a second field and one
\* whose field has the name of an inherited property
F(value) == <<Entry("f", value)>>
IsoText == <<"2", "0", "2", "4", "-", "0", "1", "-", "0", "5", "T", "1", "0", ":", "0", "0">>
SchemaMaps ==
    {F(Null), F(Str(<<"a", "c">>)), F(Str(IsoText)), F(Str(<<"1", "2">>)),
     F(Str(<<"a", "@", "c", ".", "e">>)), F(Str(<<"h", "t", "t", "p", ":", "/", "/", "a">>)),
     F(Num(5)), F(Bool(TRUE)), F(Arr(<<>>)),
     <<Entry("g", Obj(<<>>)), Entry("f", Str(<<>>))>>,
     <<Entry("constructor", Str(<<"c">>))>>}

\* field maps of a numeric field n, with a null, a NaN, a record without n
\* and a record whose field has the name of an inherited property
N(value) == <<Entry("n", value)>>
StatisticsMaps ==
    {N(Num(1)), N(Num(2)), N(Num(4)), N(Num(7)), N(Null), N(NaN), X(Num(1)),
     <<Entry("valueOf", Num(2))>>}

\* an analysis call that only returns a value; one call is followed per
\* behaviour, its result does not depend on the calls before it
Analyse(op, data, result) ==
    /\ returned.op = "none"
    /\ returned' = [op |-> op, data |-> data, result |-> result]
    /\ last' = Done(op, 0, 0, "ok")
    /\ emitted' = <<>>
    /\ UNCHANGED <<now, ticks, ops, maxSessions, sessionTimeout, nodeEnv, sessions, nextId, born,
                   evars, pvars, bvars>>

InferDataSchema(data) == Analyse("inferDataSchema", data, inferDataSchema(data))

GenerateDataStatistics(data) ==
    Analyse("generateDataStatistics", data, generateDataStatistics(data))

\* the analysis calls of the pipeline on processed records
NextAnalysis ==
    \/ \E data \in Batches(AggregationMaps), rules \in AggregationRuleLists :
           AggregateData(data, rules)
    \/ \E data \in Batches(SchemaMaps) : InferDataSchema(data)
    \/ \E data \in Batches(StatisticsMaps) : GenerateDataStatistics(data)

SpecAnalysis == InitPipeline /\ [][NextAnalysis]_vars

(* ---------------------------- browser manager --------------------------- *)
MaxConcurrentBrowsers == 2   \* the maxConcurrentBrowsers handed to the constructor
MaxBrowserCalls == 3         \* createBrowserSession / closeBrowserSession calls

\* the BrowserSession createBrowserSession stores (no page has been opened)
BrowserSession(id, sessionId) == [id |-> id, sessionId |-> sessionId, isActive |-> TRUE]

\* the sessions with isActive, counted by createBrowserSession
activeBrowsers(bs) == Cardinality({i \in 1..Len(bs) : bs[i].isActive})

\* getBrowserSession(sessionId): the id of the first active browser session
\* of the session in the Map's insertion order, or Undefined
getBrowserSession(bs, sessionId) ==
    LET found == {i \in 1..Len(bs) : bs[i].sessionId = sessionId /\ bs[i].isActive} IN
    IF found = {} THEN Undefined
    ELSE bs[CHOOSE i \in found : \A other \in found : i <= other].id

\* the continuation of createBrowserSession after puppeteer.launch:
\* browserSessions.set under a fresh id
launched(bs, id, sessionId) == Append(bs, BrowserSession(id, sessionId))

\* the continuation of closeBrowserSession after browser.close:
\* browserSessions.delete(id)
closed(bs, id) == SelectSeq(bs, LAMBDA session : session.id # id)

BrowserFrame ==
    UNCHANGED <<now, ticks, ops, maxSessions, sessionTimeout, nodeEnv, sessions, nextId, born,
                emitted, evars, pvars, returned>>

\* createBrowserSession(sessionId) up to its await: the limit test, then
\* puppeteer.launch is started
CreateBrowserSession(sessionId) ==
    /\ nextBrowser <= MaxBrowserCalls
    /\ nextBrowser' = nextBrowser + 1
    /\ IF activeBrowsers(browserSessions) >= MaxConcurrentBrowsers
       THEN /\ launching' = launching
            /\ last' = Done("createBrowserSession", nextBrowser, sessionId, "capacity")
       ELSE /\ launching' = MapSet(launching, nextBrowser, sessionId)
            /\ last' = Done("createBrowserSession", nextBrowser, sessionId, "pending")
    /\ UNCHANGED <<browserSessions, closing>>
    /\ BrowserFrame

\* puppeteer.launch resolves: the session is stored and returned
LaunchResolves(call) ==
    /\ call \in DOMAIN launching
    /\ browserSessions' = launched(browserSessions, call, launching[call])
    /\ launching' = MapDelete(launching, call)
    /\ last' = Done("createBrowserSession", call, launching[call], "ok")
    /\ UNCHANGED <<closing, nextBrowser>>
    /\ BrowserFrame

\* puppeteer.launch rejects: the call throws 'Failed to create browser session'
LaunchRejects(call) ==
    /\ call \in DOMAIN launching
    /\ launching' = MapDelete(launching, call)
    /\ last' = Done("createBrowserSession", call, launching[call], "failed")
    /\ UNCHANGED <<browserSessions, closing, nextBrowser>>
    /\ BrowserFrame

\* closeBrowserSession(sessionId) up to its await: without an active browser
\* session it returns, otherwise browser.close is started
CloseBrowserSession(sessionId) ==
    /\ nextBrowser <= MaxBrowserCalls
    /\ nextBrowser' = nextBrowser + 1
    /\ LET id == getBrowserSession(browserSessions, sessionId) IN
       IF id = Undefined
       THEN /\ closing' = closing
            /\ last' = Done("closeBrowserSession", nextBrowser, sessionId, "ok")
       ELSE /\ closing' = MapSet(closing, nextBrowser, id)
            /\ last' = Done("closeBrowserSession", nextBrowser, sessionId, "pending")
    /\ UNCHANGED <<browserSessions, launching>>
    /\ BrowserFrame

\* browser.close resolves: the session is marked inactive and deleted
CloseResolves(call) ==
    /\ call \in DOMAIN closing
    /\ browserSessions' = closed(browserSessions, closing[call])
    /\ closing' = MapDelete(closing, call)
    /\ last' = Done("closeBrowserSession", call, closing[call], "ok")
    /\ UNCHANGED <<launching, nextBrowser>>
    /\ BrowserFrame

\* browser.close rejects: the error is logged and the session stays
CloseRejects(call) ==
    /\ call \in DOMAIN closing
    /\ closing' = MapDelete(closing, call)
    /\ last' = Done("closeBrowserSession", call, closing[call], "error")
    /\ UNCHANGED <<browserSessions, launching, nextBrowser>>
    /\ BrowserFrame

\* concurrent createBrowserSession and closeBrowserSession calls
NextBrowser ==
    \/ \E sessionId \in Ids : CreateBrowserSession(sessionId)
    \/ \E call \in DOMAIN launching : LaunchResolves(call)
    \/ \E call \in DOMAIN launching : LaunchRejects(call)
    \/ \E sessionId \in Ids : CloseBrowserSession(sessionId)
    \/ \E call \in DOMAIN closing : CloseResolves(call)
    \/ \E call \in DOMAIN closing : CloseRejects(call)

SpecBrowser == InitPipeline /\ [][NextBrowser]_vars

(* ----------------------- claims on the event bus ------------------------ *)
\* the callbacks invoked by the step just taken
NewCalls == SubSeq(calls', Len(calls) + 1, Len(calls'))

\* the subscription test of the claims, written out on a subscription
\* stored when the step begins
Wants(sid, ev) ==
    /\ sid \in DOMAIN eventSubscriptions
    /\ ev.type \in eventSubscriptions[sid].eventTypes
    /\ \/ eventSubscriptions[sid].sessionId = Undefined
       \/ eventSubscriptions[sid].sessionId = ev.sessionId

\* the subscriptions stored before and after the step
Staying == (DOMAIN eventSubscriptions) \cap (DOMAIN eventSubscriptions')

(* C11: a matching subscriber gets every event of an operation while that  *)
(* operation runs, behind everything delivered by the operations invoked   *)
(* before it, so each subscriber sees the events in invocation order.      *)
C11_DeliveredInInvocationOrder ==
    [][/\ Len(calls') >= Len(calls)
       /\ SubSeq(calls', 1, Len(calls)) = calls
       /\ \A i \in 1..Len(NewCalls) : NewCalls[i].op \in (ops + 1)..ops'
       /\ \A sid \in Staying : \A k \in 1..Len(emitted') :
              Wants(sid, emitted'[k])
              => \E i \in 1..Len(NewCalls) :
                     /\ NewCalls[i].sub = sid
                     /\ NewCalls[i].event = emitted'[k]
       /\ \A i, j \in 1..Len(calls') :
              (i < j /\ calls'[i].sub = calls'[j].sub) => calls'[i].op <= calls'[j].op]_vars

C13_InvokedIffSubscribed ==
    [][/\ emitted' # <<>>
          => \A sid \in 1..(nextSub' - 1) :
                 (\E i \in 1..Len(NewCalls) :
                      NewCalls[i].sub = sid /\ NewCalls[i].event = emitted'[1])
                 <=> Wants(sid, emitted'[1])
       /\ \A i \in 1..Len(NewCalls) : \E k \in 1..Len(emitted') : NewCalls[i].event = emitted'[k]
       /\ last'.op = "unsubscribe" => last'.id \notin DOMAIN eventSubscriptions'
       /\ \A sid \in 1..(nextSub - 1) :
              sid \notin DOMAIN eventSubscriptions
              => /\ sid \notin DOMAIN eventSubscriptions'
                 /\ \A i \in 1..Len(NewCalls) : NewCalls[i].sub # sid
       /\ \A i, j \in 1..Len(NewCalls) :
              (/\ i < j
               /\ NewCalls[i].sub \in DOMAIN eventSubscriptions
               /\ eventSubscriptions[NewCalls[i].sub].callback = "unsubscribes")
              => NewCalls[j].sub # NewCalls[i].sub + 1]_vars

(* ------------------------ claims on the pipeline ------------------------ *)
\* the processData calls that have returned their array
Resolved == {id \in DOMAIN runs : runs[id].promise = "resolved"}

\* the ids of the raw records behind an output array, in order
OriginalIds(processedData) == [i \in 1..Len(processedData) |-> processedData[i].originalId]

\* some rule of the list throws while it is applied to the record: in one of
\* its conditions or in its operation
ThrowsOn(raw, rules) ==
    LET r == applyRules(raw.raw, <<>>, rules) IN
    \/ r.threw
    \/ \E i \in 1..Len(r.transformations) : r.transformations[i].error = RegExpError

(* C14: when a cleaning rule throws on record 3 of a batch of five and on  *)
(* no other record, processData returns the four processed records 1, 2,   *)
(* 4 and 5, and the job's errors hold exactly one entry, under the id of   *)
(* record 3.                                                               *)
C14_ThrowingRecordIsSkipped ==
    \A id \in Resolved :
        LET run == runs[id] IN
        (/\ Len(run.rawData) = 5
         /\ \A k \in 1..5 : ThrowsOn(run.rawData[k], run.cleaningRules) <=> k = 3)
        => /\ OriginalIds(run.processedData) =
                  <<run.rawData[1].id, run.rawData[2].id, run.rawData[4].id, run.rawData[5].id>>
           /\ Len(processingQueue[id].errors) = 1
           /\ processingQueue[id].errors[1].recordId = run.rawData[3].id

\* a job status no step leaves
TerminalJob(job) == job.status \in {"completed", "failed"}

(* C15: a processing or export job reaches completed or failed at most     *)
(* once: every change of a job's status leads from running to completed    *)
(* or failed, a job that is completed or failed keeps that status for as   *)
(* long as it is in its map, and an export job enters its map running (a   *)
(* processing job whose call meets no await is seen first when it ended).  *)
C15_TerminalStatusIsFinal ==
    [][/\ \A id \in (DOMAIN processingQueue) \cap (DOMAIN processingQueue') :
              processingQueue'[id].status # processingQueue[id].status
              => /\ ~TerminalJob(processingQueue[id])
                 /\ TerminalJob(processingQueue'[id])
       /\ \A id \in (DOMAIN exportJobs) \cap (DOMAIN exportJobs') :
              exportJobs'[id].status # exportJobs[id].status
              => /\ ~TerminalJob(exportJobs[id])
                 /\ TerminalJob(exportJobs'[id])
       /\ \A id \in (DOMAIN exportJobs') \ (DOMAIN exportJobs) :
              ~TerminalJob(exportJobs'[id])]_vars

(* C16: exportData returns the job while the export is still running, and  *)
(* an export that fails is not reported to any caller: the job kept in     *)
(* exportJobs, as getExportJob returns it, becomes failed with an error    *)
(* text, and no other job or call is touched.                              *)
C16_ExportFailureStaysOnJob ==
    [][/\ last'.op = "exportData"
          => /\ last'.ret = "job"
             /\ last'.id \in DOMAIN exportJobs'
             /\ getExportJob(exportJobs', last'.id).status = "running"
             /\ getExportJob(exportJobs', last'.id).completed = Undefined
             /\ last'.id \in DOMAIN exporting'
       /\ (last'.op = "performExport" /\ last'.arg.json = Undefined)
          => /\ getExportJob(exportJobs', last'.id).status = "failed"
             /\ getExportJob(exportJobs', last'.id).error # ""
             /\ getExportJob(exportJobs', last'.id).completed = now
             /\ runs' = runs
             /\ processingQueue' = processingQueue
             /\ \A other \in (DOMAIN exportJobs) \ {last'.id} :
                    exportJobs'[other] = exportJobs[other]]_vars

\* an export whose data cannot be written has failed, after exportData had
\* returned its job
C16_Witness ==
    /\ last.op = "performExport"
    /\ last.arg.json = Undefined
    /\ getExportJob(exportJobs, last.id).status = "failed"
    /\ getExportJob(exportJobs, last.id).started < now

\* the uuids the pipeline can hand out: one per call and one per record
\* of the job inputs
JobIds == 1..(3 * MaxJobs)

\* the job ended more than 24 hours ago and is still in its map
StaleProcessingJob(id) ==
    /\ id \in DOMAIN processingQueue
    /\ processingQueue[id].endTime # Undefined
    /\ now - processingQueue[id].endTime > MaxAgeMs
StaleExportJob(id) ==
    /\ id \in DOMAIN exportJobs
    /\ exportJobs[id].completed # Undefined
    /\ now - exportJobs[id].completed > MaxAgeMs

(* C17: without any caller invoking cleanupJobs, a processing or export    *)
(* job whose end lies more than 24 hours back is eventually deleted from   *)
(* its map by the pipeline itself.                                         *)
C17_StaleJobsAreSweptUnattended ==
    \A id \in JobIds :
        /\ StaleProcessingJob(id) ~> (id \notin DOMAIN processingQueue)
        /\ StaleExportJob(id) ~> (id \notin DOMAIN exportJobs)


\* the raw record an output record was made from
RawOf(run, p) ==
    run.rawData[CHOOSE k \in 1..Len(run.rawData) :
                    ~run.rawData[k].isNull /\ run.rawData[k].id = p.originalId]

\* the record after the first n rules of the list
AfterRules(raw, rules, n) == applyRules(raw.raw, <<>>, SubSeq(rules, 1, n))

\* every condition of the rule, after its negate flag, matches the data
AllConditionsMatch(data, rule) ==
    \A c \in 1..Len(rule.conditions) :
        LET condition == rule.conditions[c]
            m == conditionMatches(ObjGet(data, condition.field), condition)
        IN ~m.threw /\ (m.v # condition.negate)

(* C18: on every processed record, a rule adds its Transformation exactly   *)
(* when all its conditions, each after its negate flag, match the record as *)
(* the preceding rules left it; a rule that does not fire leaves the        *)
(* cleaned record as it was and records nothing; the output record holds    *)
(* the result of the whole list.                                            *)
C18_RuleFiresIffConditionsMatch ==
    \A id \in DOMAIN runs : \A j \in 1..Len(runs[id].processedData) :
        LET run == runs[id]
            p == run.processedData[j]
            raw == RawOf(run, p)
            rules == run.cleaningRules
            all == AfterRules(raw, rules, Len(rules))
        IN
        /\ p.processed = all.cleaned
        /\ p.transformations = all.transformations
        /\ \A r \in 1..Len(rules) :
               LET before == AfterRules(raw, rules, r - 1)
                   after == AfterRules(raw, rules, r)
               IN IF AllConditionsMatch(before.cleaned, rules[r])
                  THEN /\ Len(after.transformations) = Len(before.transformations) + 1
                       /\ LET t == after.transformations[Len(after.transformations)] IN
                          /\ t.field = rules[r].field
                          /\ t.operation = rules[r].operation
                          /\ t.before = ObjGet(before.cleaned, rules[r].field)
                          /\ ObjGet(after.cleaned, rules[r].field) = t.after
                  ELSE /\ after.transformations = before.transformations
                       /\ after.cleaned = before.cleaned

\* record 202 went through uppercase-then-trim: the first rule made its
\* status 'ACTIVE', so the trim conditioned on status = 'active' did not fire
C18_Witness ==
    \E id \in DOMAIN runs : \E j \in 1..Len(runs[id].processedData) :
        LET p == runs[id].processedData[j] IN
        /\ runs[id].cleaningRules = UppercaseThenTrim
        /\ p.originalId = 202
        /\ Len(p.transformations) = 1
        /\ ObjGet(p.processed, "status") = Str(toUpperCase(Active))
        /\ ObjGet(p.processed, "name") = ObjGet(ActiveRecord(202).raw, "name")


\* the rule names a transformer or a validator that is not registered
NamesMissing(t) ==
    \/ t.operation = "transform" /\ t.parameters.transformer # ""
                                 /\ t.parameters.transformer \notin TransformerNames
    \/ t.operation = "validate" /\ t.parameters.validator # ""
                                /\ t.parameters.validator \notin ValidatorNames

(* C19: a transform or validate rule that names a transformer or validator *)
(* missing from the registry does not stop the record: the record is in    *)
(* the output, the field keeps its value, and the Transformation recorded  *)
(* for the rule has success = false.                                       *)
C19_MissingNameIsRecordedAsFailure ==
    \A id \in DOMAIN runs : \A j \in 1..Len(runs[id].processedData) :
        LET p == runs[id].processedData[j] IN
        \A i \in 1..Len(p.transformations) :
            NamesMissing(p.transformations[i]) =>
                /\ p.transformations[i].after = p.transformations[i].before
                /\ p.transformations[i].success = FALSE


\* two processData calls were given the same array and the same rules
SameArguments(a, b) ==
    /\ runs[a].batch = runs[b].batch
    /\ runs[a].cleaningRules = runs[b].cleaningRules
    /\ runs[a].validationRules = runs[b].validationRules

\* the parts of an output array that do not depend on the call
Content(processedData) ==
    [i \in 1..Len(processedData) |->
        [originalId |-> processedData[i].originalId,
         processed |-> processedData[i].processed,
         transformations |-> processedData[i].transformations,
         quality |-> processedData[i].quality]]

(* C20: two processData calls on the same raw batch with the same cleaning *)
(* and validation rules return arrays of the same length whose records     *)
(* agree position by position on the processed map, the transformations    *)
(* and the quality, and carry different generated ids; no step of a call   *)
(* changes the raw records it was given, in the call's view or in the      *)
(* caller's array.                                                         *)
C20_ProcessDataIsRepeatable ==
    [][/\ \A a \in Resolved', b \in Resolved' :
              (a # b /\ SameArguments(a, b)') =>
                  /\ Len(runs'[a].processedData) = Len(runs'[b].processedData)
                  /\ Content(runs'[a].processedData) = Content(runs'[b].processedData)
                  /\ \A i \in 1..Len(runs'[a].processedData),
                        j \in 1..Len(runs'[b].processedData) :
                         runs'[a].processedData[i].id # runs'[b].processedData[j].id
       /\ \A id \in DOMAIN runs : runs'[id].rawData = runs[id].rawData
       /\ rawBatches' = rawBatches
       /\ \A id \in DOMAIN runs' : runs'[id].rawData = CallerBatches[runs'[id].batch]]_vars

\* the same batch of two went through the same rules twice, at different
\* times, and both calls returned both records
C20_Witness ==
    \E a \in Resolved, b \in Resolved :
        /\ a # b
        /\ SameArguments(a, b)
        /\ runs[a].cleaningRules = UppercaseThenTrim
        /\ Len(runs[a].processedData) = 2
        /\ Len(runs[b].processedData) = 2
        /\ runs[a].processedData[1].timestamp # runs[b].processedData[1].timestamp


\* the ids of the first n records of a batch, in input order
InputIds(run, n) == [k \in 1..n |-> run.rawData[k].id]

\* the record ids the job's error list names
FailedIds(job) == {job.errors[e].recordId : e \in 1..Len(job.errors)}

\* a sequence without the elements of a set, in the same order
RECURSIVE Without(_, _)
Without(seq, set) ==
    IF seq = <<>> THEN <<>>
    ELSE IF Head(seq) \in set THEN Without(Tail(seq), set)
    ELSE <<Head(seq)>> \o Without(Tail(seq), set)

(* C21: at every point of a processData call that has not been rejected,   *)
(* the originalIds of the output array are the ids of the records handled  *)
(* so far, in input order, without the records in the job's error list: no *)
(* reordering, no duplicates; so is the array the call returns.            *)
C21_OutputKeepsInputOrder ==
    \A id \in DOMAIN runs :
        runs[id].promise # "rejected" =>
            OriginalIds(runs[id].processedData) =
                Without(InputIds(runs[id], runs[id].i), FailedIds(processingQueue[id]))

\* a batch of five returned four records, the third one having failed
C21_Witness ==
    \E id \in Resolved :
        /\ Len(runs[id].rawData) = 5
        /\ InputIds(runs[id], 5) = <<101, 102, 103, 104, 105>>
        /\ FailedIds(processingQueue[id]) = {103}
        /\ OriginalIds(runs[id].processedData) = <<101, 102, 104, 105>>


\* a ratio between 0 and 1
InUnitInterval(ratio) == 0 <= ratio[1] /\ ratio[1] <= ratio[2] /\ ratio[2] > 0

(* C22: on every record processData produces, the four ratios of its       *)
(* quality (completeness, accuracy, consistency, timeliness) lie between   *)
(* 0 and 1.                                                                *)
C22_QualityRatiosInUnitInterval ==
    \A id \in DOMAIN runs : \A j \in 1..Len(runs[id].processedData) :
        LET quality == runs[id].processedData[j].quality IN
        /\ InUnitInterval(quality.completeness)
        /\ InUnitInterval(quality.accuracy)
        /\ InUnitInterval(quality.consistency)
        /\ InUnitInterval(quality.timeliness)


(* ------------------------ claims on the analysis ------------------------ *)
\* the field maps of a batch, in order
ProcessedMaps(data) == [i \in 1..Len(data) |-> data[i].processed]

\* what the claim gives for each operation on x = 1, 2, 3
ExpectedOfOneTwoThree(operation) ==
    CASE operation = "sum" -> Num(6)
      [] operation = "average" -> Num(2)
      [] operation = "count" -> Num(3)

(* C23: aggregateData on the records {x:1}, {x:2}, {x:3} with the single   *)
(* rule {fields:['x'], operation: op} returns one row, whose aggregated.x  *)
(* is 6 for sum, 2 for average and 3 for count.                            *)
C23_SumAverageCountOfOneTwoThree ==
    (/\ returned.op = "aggregateData"
     /\ ProcessedMaps(returned.data) = <<X(Num(1)), X(Num(2)), X(Num(3))>>
     /\ Len(returned.rules) = 1
     /\ returned.rules[1].fields = <<"x">>
     /\ returned.rules[1].operation \in {"sum", "average", "count"})
    => /\ Len(returned.result) = 1
       /\ ObjGet(returned.result[1].aggregated, "x") =
              ExpectedOfOneTwoThree(returned.rules[1].operation)


\* the rank of a type in the specificity order
Rank(type) == CHOOSE i \in 1..Len(Specificity) : Specificity[i] = type

\* the type a field map gives to a field
TypeOf(fieldMap, name) == EntryGet(fieldMap, name).type

\* the types inferred for the values a batch holds under a field name
TypesSeen(data, name) ==
    {inferFieldType(ObjGet(data[i].processed, name)) :
        i \in {j \in 1..Len(data) : name \in ObjKeys(data[j].processed)}}

\* the types of a schema by field name
SchemaTypes(schema) ==
    [name \in {schema.fields[i].name : i \in 1..Len(schema.fields)} |->
        LET i == CHOOSE j \in 1..Len(schema.fields) : schema.fields[j].name = name
        IN schema.fields[i].type]

(* C24: while inferDataSchema scans the records in order, the rank of a    *)
(* field's type in string < date < phone < email < url < number < boolean  *)
(* < array < object never goes down; the type of the returned schema is    *)
(* the highest-ranked type inferred for a value of the field, and it is    *)
(* the same for every order of the records.                                *)
C24_SchemaTypeNeverDowngrades ==
    returned.op = "inferDataSchema" =>
        LET data == returned.data
            types == SchemaTypes(returned.result)
        IN
        /\ \A n \in 1..Len(data) :
               LET before == scanRecords(SubSeq(data, 1, n - 1))
                   after == scanRecords(SubSeq(data, 1, n))
               IN \A name \in EntryKeys(before) :
                      /\ name \in EntryKeys(after)
                      /\ Rank(TypeOf(after, name)) >= Rank(TypeOf(before, name))
        /\ \A name \in DOMAIN types :
               /\ types[name] \in TypesSeen(data, name)
               /\ \A seen \in TypesSeen(data, name) : Rank(types[name]) >= Rank(seen)
        /\ \A order \in Permutations(1..Len(data)) :
               SchemaTypes(inferDataSchema([i \in 1..Len(data) |-> data[order[i]]])) = types

\* an e-mail address came first and plain text after it: the field is an email
C24_Witness ==
    /\ returned.op = "inferDataSchema"
    /\ Len(returned.data) >= 2
    /\ inferFieldType(ObjGet(returned.data[1].processed, "f")) = "email"
    /\ inferFieldType(ObjGet(returned.data[2].processed, "f")) = "string"
    /\ SchemaTypes(returned.result)["f"] = "email"


\* the values the analysed batch holds under a field name
ValuesOf(data, name) ==
    filterValues([i \in 1..Len(data) |-> ObjGet(data[i].processed, name)])

\* the values of a numeric field of the analysed batch, sorted ascending
SortedValues(data, name) ==
    SortSeq([i \in 1..Len(ValuesOf(data, name)) |-> ValuesOf(data, name)[i].v],
            LAMBDA a, b : a < b)

\* the numeric fields generateDataStatistics found, with at least one value
\* and all their values whole numbers
MeasuredFields ==
    {name \in DOMAIN returned.result.statistics :
        /\ ~returned.result.statistics[name].empty
        /\ \A i \in 1..Len(ValuesOf(returned.data, name)) :
               ValuesOf(returned.data, name)[i].t = "number"}

(* C25: for a numeric field with an even number n of values, the median   *)
(* is the lower-middle element of the sorted values, at position n/2       *)
(* counted from 1.                                                         *)
C25_MedianIsLowerMiddle ==
    returned.op = "generateDataStatistics" =>
        \A name \in MeasuredFields :
            LET sorted == SortedValues(returned.data, name) IN
            Len(sorted) % 2 = 0 =>
                returned.result.statistics[name].median = Num(sorted[Len(sorted) \div 2])

\* the input records a row of the result lists
RowRecords(data, row) ==
    {i \in 1..Len(data) : \E s \in 1..Len(row.sourceIds) : row.sourceIds[s] = data[i].id}

(* C27: aggregateData returns one row per distinct group key: the records  *)
(* of a row share their key, two rows have different keys, and the rows'   *)
(* sourceIds partition the input: each input id is listed once, in one     *)
(* row, and every listed id is an input id.                                *)
C27_RowsPartitionTheInput ==
    returned.op = "aggregateData" =>
        LET data == returned.data
            rules == returned.rules
            rows == returned.result
            key(i) == groupKey(data[i], rules)
        IN
        /\ Len(rows) = Cardinality({key(i) : i \in 1..Len(data)})
        /\ \A g \in 1..Len(rows) :
               /\ \A s \in 1..Len(rows[g].sourceIds) :
                      \E i \in 1..Len(data) : data[i].id = rows[g].sourceIds[s]
               /\ \A i \in RowRecords(data, rows[g]), j \in RowRecords(data, rows[g]) :
                      key(i) = key(j)
               /\ \A h \in 1..Len(rows) :
                      g # h => \A i \in RowRecords(data, rows[g]),
                                  j \in RowRecords(data, rows[h]) : key(i) # key(j)
        /\ \A i \in 1..Len(data) :
               Cardinality({<<g, s>> \in (1..Len(rows)) \X (1..Len(data)) :
                               /\ s <= Len(rows[g].sourceIds)
                               /\ rows[g].sourceIds[s] = data[i].id}) = 1

\* the number 1, the text '1' and the number 2: two rows, the first with
\* the first two records
C27_Witness ==
    /\ returned.op = "aggregateData"
    /\ ProcessedMaps(returned.data) = <<X(Num(1)), X(Str(<<"1">>)), X(Num(2))>>
    /\ Len(returned.rules) = 1
    /\ Len(returned.result) = 2
    /\ returned.result[1].sourceIds = <<1, 2>>
    /\ returned.result[2].sourceIds = <<3>>


(* C26: during a processData batch processedRecords never decreases and no *)
(* error entry is taken back; each pass of the record loop either adds one *)
(* to processedRecords or appends one entry to the job's errors, never     *)
(* both, so that the two add up to the number of passes made;              *)
(* processedRecords + |errors| never exceeds totalRecords and equals it    *)
(* when the job is completed, and the returned array then has              *)
(* processedRecords elements.                                              *)
C26_ProcessedAndFailedAddUp ==
    [][\A id \in DOMAIN processingQueue' :
           LET job == processingQueue'[id] IN
           /\ job.processedRecords + Len(job.errors) <= job.totalRecords
           /\ job.status = "completed" =>
                  /\ job.processedRecords + Len(job.errors) = job.totalRecords
                  /\ runs'[id].promise = "resolved"
                  /\ Len(runs'[id].processedData) = job.processedRecords
           /\ runs'[id].promise # "rejected" =>
                  job.processedRecords + Len(job.errors) = runs'[id].i
           /\ id \in DOMAIN processingQueue =>
                  LET old == processingQueue[id] IN
                  /\ job.processedRecords >= old.processedRecords
                  /\ Len(job.errors) >= Len(old.errors)
                  /\ SubSeq(job.errors, 1, Len(old.errors)) = old.errors
                  /\ runs'[id].i = runs[id].i + 1 =>
                         \/ /\ job.processedRecords = old.processedRecords + 1
                            /\ job.errors = old.errors
                         \/ /\ job.processedRecords = old.processedRecords
                            /\ Len(job.errors) = Len(old.errors) + 1]_vars

\* a completed batch of five with four processed records and one error
C26_Witness ==
    \E id \in DOMAIN processingQueue :
        /\ processingQueue[id].status = "completed"
        /\ processingQueue[id].totalRecords = 5
        /\ processingQueue[id].processedRecords = 4
        /\ Len(processingQueue[id].errors) = 1
        /\ Len(runs[id].processedData) = 4


(* ------------------------ claims on the registry ------------------------ *)
(* C28: expired is absorbing: a session whose status is expired keeps that *)
(* status through every registry operation for as long as it is in the     *)
(* registry; it can only be removed.                                       *)
C28_ExpiredIsAbsorbing ==
    [][\A id \in DOMAIN sessions :
           (sessions[id].status = "expired" /\ id \in DOMAIN sessions') =>
               sessions'[id].status = "expired"]_vars


(* C29: in every state of the registry a session whose status is completed *)
(* or failed has metadata.endTime and metadata.duration set, with          *)
(* duration = endTime - startTime, whichever operation ended it.           *)
C29_EndedSessionsCarryDuration ==
    \A id \in DOMAIN sessions :
        sessions[id].status \in {"completed", "failed"} =>
            /\ sessions[id].metadata.endTime # Undefined
            /\ sessions[id].metadata.duration # Undefined
            /\ sessions[id].metadata.duration =
                   sessions[id].metadata.endTime - sessions[id].metadata.startTime


(* ----------------------- claims on the browsers ------------------------- *)
(* C30: however createBrowserSession and closeBrowserSession calls          *)
(* interleave at their awaits, the number of active browser sessions never *)
(* exceeds maxConcurrentBrowsers.                                          *)
C30_ActiveBrowsersWithinLimit ==
    activeBrowsers(browserSessions) <= MaxConcurrentBrowsers

====
